---- MODULE Spec2Model ----
(***************************************************************************)
(* GreenWatch AI (boomija15/greenwash-ai): the seller ledger of            *)
(* backend/modules/predictive_engine.py, the certificate matcher of       *)
(* backend/modules/cert_matcher.py, the risk scorer of                    *)
(* backend/modules/risk_scorer.py and the claim extractor of              *)
(* backend/modules/nlp_engine.py, as state machines.                      *)
(*                                                                         *)
(* Python dicts are modelled as what they are: insertion-ordered mappings. *)
(* A dict whose keys are fixed strings is a TLA+ record (a function on     *)
(* strings, so a key can be added with SetItem); a dict whose keys are     *)
(* data is a sequence of [key, value] items in insertion order.  A dict    *)
(* that is shared by reference (a seller profile) lives in `objects` and   *)
(* is named by its index there.                                            *)
(***************************************************************************)
EXTENDS Integers, Sequences, FiniteSets, TLC

\* ------------------------------------------------------------------ bounds
\* record_submission calls in one behaviour of Spec
MaxSubmissions == 3

\* ------------------------------------------------------- inputs of the ledger
\* two company names that differ only in letter case: the ledger keys are
\* compared with ==, so they are two sellers
Companies == {"GreenWood Ltd", "greenwood ltd"}
Products == {"Bamboo Desk"}
Verdicts == {"GREENWASHED", "REVIEW_REQUIRED", "VERIFIED"}
\* 17.5 and 32.5 are among their means: round() takes a half to the even neighbour
RiskScores == {15, 20, 50}
\* claims as record_submission reads them: only c["phrase"] is used
Claim(p) == [phrase |-> p]
ClaimLists ==
    { <<Claim("eco-friendly"), Claim("green"), Claim("natural"),
        Claim("100% sustainable"), Claim("100% sustainable")>>,
      <<Claim("100% sustainable"), Claim("zero impact")>> }

VARIABLES
    SUBMISSION_HISTORY, \* predictive_engine.SUBMISSION_HISTORY: list of entries
    SELLER_PROFILES,    \* predictive_engine.SELLER_PROFILES: company -> profile (a reference into objects)
    objects,            \* the profile dicts, in order of creation
    clock,              \* datetime.now(), as a logical clock
    ret,                \* the last call: its name, arguments, result or exception
    threads,            \* the request threads inside record_submission: line reached and locals
    KEYWORDS,           \* nlp_engine.KEYWORDS: claim type -> phrases
    REGISTRY,           \* cert_matcher.REGISTRY: list of certificate records
    SDG_TARGETS,        \* risk_scorer.SDG_TARGETS: target id -> target data
    CERT_GUIDANCE,      \* cert_matcher.CERT_GUIDANCE: certificate type -> guidance
    request,            \* the arguments a pipeline component is called with
    today               \* date.today()

ledger == <<SUBMISSION_HISTORY, SELLER_PROFILES, objects>>
tables == <<KEYWORDS, REGISTRY, SDG_TARGETS, CERT_GUIDANCE>>
vars == <<SUBMISSION_HISTORY, SELLER_PROFILES, objects, clock, ret, threads,
          KEYWORDS, REGISTRY, SDG_TARGETS, CERT_GUIDANCE, request, today>>
\* what a call made on its own, outside the request threads, leaves alone
elsewhere == <<threads, tables, request, today>>

\* ------------------------------------------------------------ Python values
\* d[k] = v on a dict with fixed string keys (adds the key when it is absent)
SetItem(d, k, v) == (k :> v) @@ d
\* d.get(k, default)
GetOr(d, k, default) == IF k \in DOMAIN d THEN d[k] ELSE default

\* insertion-ordered dicts with data keys: sequences of [key, value]
DictHas(d, k) == \E i \in 1..Len(d) : d[i].key = k
DictIndex(d, k) == CHOOSE i \in 1..Len(d) : d[i].key = k
DictGet(d, k) == d[DictIndex(d, k)].value
DictSet(d, k, v) ==
    IF DictHas(d, k)
    THEN [d EXCEPT ![DictIndex(d, k)].value = v]
    ELSE Append(d, [key |-> k, value |-> v])

\* round(num / den) for num >= 0, den > 0: Python 3 rounds halves to even
PyRound(num, den) ==
    LET q == num \div den
        r == num % den
    IN  IF 2 * r < den THEN q
        ELSE IF 2 * r > den THEN q + 1
        ELSE IF q % 2 = 0 THEN q ELSE q + 1

Max(a, b) == IF a >= b THEN a ELSE b
Min(a, b) == IF a <= b THEN a ELSE b

RECURSIVE SeqSum(_)
SeqSum(s) == IF s = <<>> THEN 0 ELSE Head(s) + SeqSum(Tail(s))

RECURSIVE Reversed(_)
Reversed(s) == IF s = <<>> THEN <<>> ELSE Append(Reversed(Tail(s)), Head(s))

\* s[:n]
Take(s, n) == SubSeq(s, 1, Min(n, Len(s)))

\* a > b for two tuples of integers of one length, as Python compares tuples
RECURSIVE TupleGreater(_, _)
TupleGreater(a, b) ==
    IF a = <<>> \/ b = <<>> THEN Len(a) > Len(b)
    ELSE IF Head(a) # Head(b) THEN Head(a) > Head(b)
    ELSE TupleGreater(Tail(a), Tail(b))

\* sorted(s, key=..., reverse=True), keys[i] being the key of s[i]: Python's
\* sort is stable, and with reverse=True elements with equal keys keep their
\* original order. The element at i goes after every element with a greater
\* key and after the earlier elements with an equal key.
SortedReverse(s, keys) ==
    LET rank(i) == 1 + Cardinality({j \in 1..Len(s) :
                        \/ TupleGreater(keys[j], keys[i])
                        \/ (~TupleGreater(keys[i], keys[j]) /\ j < i)})
    IN  [k \in 1..Len(s) |-> s[CHOOSE i \in 1..Len(s) : rank(i) = k]]

\* --------------------------------------------------- predictive_engine.py
\* the entry dict of record_submission
Entry(company, product, verdict, risk_score, claims, now) ==
    [company |-> company,
     product |-> product,
     verdict |-> verdict,
     risk_score |-> risk_score,
     claim_count |-> Len(claims),
     timestamp |-> now,
     claim_phrases |-> [i \in 1..Len(claims) |-> claims[i].phrase]]

\* line 26 with the entry put in front of the log
AppendEntry_first(history, entry) == <<entry>> \o history

\* line 26: SUBMISSION_HISTORY.append(entry)
AppendEntry(history, entry) == Append(history, entry)

\* the dict a first submission creates; it has no avg_risk_score key yet, and
\* its recurring_phrases is a defaultdict(int)
NewProfile(company, entry) ==
    [company |-> company,
     total_submissions |-> 0,
     greenwashed_count |-> 0,
     review_count |-> 0,
     verified_count |-> 0,
     total_risk_score |-> 0,
     recurring_phrases |-> [kind |-> "defaultdict", items |-> <<>>],
     first_seen |-> entry.timestamp,
     last_seen |-> entry.timestamp,
     alert_level |-> "LOW"]

\* greenwash_rate >= n/10, with greenwash_rate = greenwashed_count / max(total_submissions, 1)
RateAtLeast(profile, tenths) ==
    profile.greenwashed_count * 10 >= tenths * Max(profile.total_submissions, 1)

_compute_alert_level(profile) ==
    IF RateAtLeast(profile, 6) \/ profile.greenwashed_count >= 3 THEN "HIGH"
    ELSE IF RateAtLeast(profile, 3) \/ profile.greenwashed_count >= 2 THEN "MEDIUM"
    ELSE "LOW"

\* lines 47-49
AddSubmission_overwrite(profile, entry) ==
    [profile EXCEPT !.total_submissions = @ + 1,
                    !.total_risk_score = entry.risk_score,
                    !.last_seen = entry.timestamp]

AddSubmission(profile, entry) ==
    [profile EXCEPT !.total_submissions = @ + 1,
                    !.total_risk_score = @ + entry.risk_score,
                    !.last_seen = entry.timestamp]

\* lines 51-56
CountVerdict_misfiled(profile, entry) ==
    IF entry.verdict = "GREENWASHED"
    THEN [profile EXCEPT !.greenwashed_count = @ + 1]
    ELSE [profile EXCEPT !.verified_count = @ + 1]

CountVerdict(profile, entry) ==
    IF entry.verdict = "GREENWASHED"
    THEN [profile EXCEPT !.greenwashed_count = @ + 1]
    ELSE IF entry.verdict = "REVIEW_REQUIRED"
         THEN [profile EXCEPT !.review_count = @ + 1]
         ELSE [profile EXCEPT !.verified_count = @ + 1]

\* profile["recurring_phrases"][phrase] += 1 raises KeyError when the phrase is
\* absent and the mapping is a plain dict; a defaultdict(int) inserts 0 first
PhraseRaises(rp, phrase) == rp.kind = "dict" /\ ~DictHas(rp.items, phrase)

IncrementPhrase(rp, phrase) ==
    [rp EXCEPT !.items =
        DictSet(@, phrase, (IF DictHas(@, phrase) THEN DictGet(@, phrase) ELSE 0) + 1)]

\* lines 58-59: the loop stops at the first phrase that raises
RECURSIVE PhraseLoop(_, _)
PhraseLoop(rp, phrases) ==
    IF phrases = <<>> THEN [rp |-> rp, raised |-> FALSE]
    ELSE IF PhraseRaises(rp, Head(phrases)) THEN [rp |-> rp, raised |-> TRUE]
         ELSE PhraseLoop(IncrementPhrase(rp, Head(phrases)), Tail(phrases))

\* lines 62-64
RefreshDerived(profile) ==
    LET a == SetItem(profile, "alert_level", _compute_alert_level(profile))
        b == SetItem(a, "avg_risk_score",
                     PyRound(a.total_risk_score, a.total_submissions))
    IN  SetItem(b, "recurring_phrases", [kind |-> "dict", items |-> b.recurring_phrases.items])

\* lines 32-44: the mapping and the objects after the membership test and the creation
EnsureProfile(profiles, objs, company, entry) ==
    IF DictHas(profiles, company)
    THEN [profiles |-> profiles, objects |-> objs]
    ELSE [profiles |-> DictSet(profiles, company, Len(objs) + 1),
          objects |-> Append(objs, NewProfile(company, entry))]

\* the whole of _update_seller_profile; raised: it ended in KeyError at line 59,
\* with the counters of lines 47-56 and the phrases before the missing one
\* already written into the live profile
_update_seller_profile(profiles, objs, company, entry) ==
    LET made == EnsureProfile(profiles, objs, company, entry)
        ref == DictGet(made.profiles, company)
        counted == CountVerdict(AddSubmission(made.objects[ref], entry), entry)
        loop == PhraseLoop(counted.recurring_phrases, entry.claim_phrases)
        phrased == SetItem(counted, "recurring_phrases", loop.rp)
    IN  [profiles |-> made.profiles,
         objects |-> [made.objects EXCEPT
                        ![ref] = IF loop.raised THEN phrased ELSE RefreshDerived(phrased)],
         raised |-> loop.raised]

NoCall == [op |-> "none", args |-> <<>>, raised |-> FALSE, value |-> <<>>]
Return(op, args, value) == [op |-> op, args |-> args, raised |-> FALSE, value |-> value]
Raise(op, args, exc) == [op |-> op, args |-> args, raised |-> TRUE, value |-> exc]

record_submission(company, product, verdict, risk_score, claims) ==
    LET entry == Entry(company, product, verdict, risk_score, claims, clock)
        upd == _update_seller_profile(SELLER_PROFILES, objects, company, entry)
        args == <<company, product, verdict, risk_score, claims>>
    IN  /\ clock' = clock + 1
        /\ SUBMISSION_HISTORY' = AppendEntry(SUBMISSION_HISTORY, entry)
        /\ SELLER_PROFILES' = upd.profiles
        /\ objects' = upd.objects
        /\ ret' = IF upd.raised
                  THEN Raise("record_submission", args, "KeyError")
                  ELSE Return("record_submission", args, "None")
        /\ UNCHANGED elsewhere

\* the profile of a company, as the mapping holds it now
ProfileOf(company) == objects[DictGet(SELLER_PROFILES, company)]

NoHistory(company) ==
    [company |-> company,
     total_submissions |-> 0,
     alert_level |-> "LOW",
     message |-> "No prior submission history found"]

\* SELLER_PROFILES.setdefault(company, {...}) in place of .get: a lookup that
\* stores the placeholder it returns
get_seller_risk_profile_setdefault(company) ==
    LET known == DictHas(SELLER_PROFILES, company) IN
    /\ ret' = Return("get_seller_risk_profile", <<company>>,
                     IF known THEN objects[DictGet(SELLER_PROFILES, company)]
                     ELSE NoHistory(company))
    /\ SELLER_PROFILES' = IF known THEN SELLER_PROFILES
                          ELSE DictSet(SELLER_PROFILES, company, Len(objects) + 1)
    /\ objects' = IF known THEN objects ELSE Append(objects, NoHistory(company))
    /\ UNCHANGED <<SUBMISSION_HISTORY, clock, elsewhere>>

\* SELLER_PROFILES.get(company, {...}): dict.get inserts nothing
get_seller_risk_profile(company) ==
    /\ ret' = Return("get_seller_risk_profile", <<company>>,
                     IF DictHas(SELLER_PROFILES, company)
                     THEN ProfileOf(company)
                     ELSE NoHistory(company))
    /\ UNCHANGED <<SUBMISSION_HISTORY, SELLER_PROFILES, objects, clock, elsewhere>>

_recommend_action(profile) ==
    IF profile.alert_level = "HIGH"
    THEN "Escalate for formal investigation - pattern of repeated greenwashing detected"
    ELSE IF profile.alert_level = "MEDIUM"
         THEN "Issue warning notice and require certification submission within 14 days"
         ELSE "Monitor - flag for review if next submission is also non-compliant"

Repeated(item) == item.value > 1

\* lines 95-98 and 106
RecurringPatterns(profile) ==
    LET items == GetOr(profile, "recurring_phrases", [kind |-> "dict", items |-> <<>>]).items
        repeated == SelectSeq(items, Repeated)
        recurring == Take(SortedReverse(repeated,
                              [i \in 1..Len(repeated) |-> <<repeated[i].value>>]), 3)
    IN  [i \in 1..Len(recurring) |->
            [phrase |-> recurring[i].key, occurrences |-> recurring[i].value]]

\* lines 100-109
Alert(company, profile) ==
    [company |-> company,
     alert_level |-> profile.alert_level,
     greenwashed_count |-> profile.greenwashed_count,
     total_submissions |-> profile.total_submissions,
     avg_risk_score |-> GetOr(profile, "avg_risk_score", 0),
     recurring_patterns |-> RecurringPatterns(profile),
     recommended_action |-> _recommend_action(profile),
     last_seen |-> profile.last_seen]

\* the sort key (x["alert_level"] == "HIGH", x["greenwashed_count"]); False < True
AlertKey(x) == <<IF x.alert_level = "HIGH" THEN 1 ELSE 0, x.greenwashed_count>>

RECURSIVE AlertsOf(_, _)
AlertsOf(profiles, objs) ==
    IF profiles = <<>> THEN <<>>
    ELSE LET profile == objs[Head(profiles).value]
             rest == AlertsOf(Tail(profiles), objs)
         IN  IF profile.alert_level \in {"HIGH", "MEDIUM"}
             THEN <<Alert(Head(profiles).key, profile)>> \o rest
             ELSE rest

\* get_early_alerts returning the alerts as collected, without line 111's sort
EarlyAlerts_unsorted(profiles, objs) == AlertsOf(profiles, objs)

EarlyAlerts(profiles, objs) ==
    LET alerts == AlertsOf(profiles, objs)
    IN  SortedReverse(alerts, [i \in 1..Len(alerts) |-> AlertKey(alerts[i])])

get_early_alerts ==
    /\ ret' = Return("get_early_alerts", <<>>, EarlyAlerts(SELLER_PROFILES, objects))
    /\ UNCHANGED <<SUBMISSION_HISTORY, SELLER_PROFILES, objects, clock, elsewhere>>

get_all_submissions ==
    /\ ret' = Return("get_all_submissions", <<>>, Reversed(SUBMISSION_HISTORY))
    /\ UNCHANGED <<SUBMISSION_HISTORY, SELLER_PROFILES, objects, clock, elsewhere>>

CountVerdicts(history, verdict) ==
    Cardinality({i \in 1..Len(history) : history[i].verdict = verdict})

PlatformStats(history, profiles, objs) ==
    IF history = <<>>
    THEN [total_scanned |-> 0, greenwashed |-> 0, under_review |-> 0, verified |-> 0,
          high_risk_sellers |-> 0, avg_risk_score |-> 0]
    ELSE [total_scanned |-> Len(history),
          greenwashed |-> CountVerdicts(history, "GREENWASHED"),
          under_review |-> CountVerdicts(history, "REVIEW_REQUIRED"),
          verified |-> CountVerdicts(history, "VERIFIED"),
          high_risk_sellers |->
              Cardinality({i \in 1..Len(profiles) : objs[profiles[i].value].alert_level = "HIGH"}),
          avg_risk_score |->
              PyRound(SeqSum([i \in 1..Len(history) |-> history[i].risk_score]), Len(history))]

get_platform_stats ==
    /\ ret' = Return("get_platform_stats", <<>>,
                     PlatformStats(SUBMISSION_HISTORY, SELLER_PROFILES, objects))
    /\ UNCHANGED <<SUBMISSION_HISTORY, SELLER_PROFILES, objects, clock, elsewhere>>

\* ------------------------------------- record_submission in request threads
\* analyze_product is a plain def route: the server runs each request in a
\* worker thread, and record_submission takes no lock. A thread moves one
\* statement at a time; an augmented assignment d[k] += v is a load and a store
\* (BINARY_SUBSCR ... STORE_SUBSCR), between which another thread may run.
Threads == {"worker-1", "worker-2"}

Idle == [pc |-> "idle", company |-> "", entry |-> <<>>, profile |-> 0, tmp |-> 0, i |-> 0]

At(t, line) == threads[t].pc = line
Goto(t, line) == threads' = [threads EXCEPT ![t].pc = line]

\* lines 17-25: the entry is built, datetime.now() read
Call(t, company, product, verdict, risk_score, claims) ==
    /\ At(t, "idle")
    /\ threads' = [threads EXCEPT ![t] =
                     [pc |-> "line26", company |-> company,
                      entry |-> Entry(company, product, verdict, risk_score, claims, clock),
                      profile |-> 0, tmp |-> 0, i |-> 1]]
    /\ clock' = clock + 1
    /\ UNCHANGED <<ledger, ret>>

\* line 26: list.append is one step
Line26(t) ==
    /\ At(t, "line26")
    /\ SUBMISSION_HISTORY' = AppendEntry(SUBMISSION_HISTORY, threads[t].entry)
    /\ Goto(t, "line32")
    /\ UNCHANGED <<SELLER_PROFILES, objects, clock, ret>>

\* line 32: the membership test
Line32(t) ==
    /\ At(t, "line32")
    /\ Goto(t, IF DictHas(SELLER_PROFILES, threads[t].company) THEN "line46" ELSE "line33")
    /\ UNCHANGED <<ledger, clock, ret>>

\* lines 33-44: a new dict is built (defaultdict(int) is called) and stored
\* under the company, whatever the mapping holds for it by now
Line33(t) ==
    /\ At(t, "line33")
    /\ SELLER_PROFILES' = DictSet(SELLER_PROFILES, threads[t].company, Len(objects) + 1)
    /\ objects' = Append(objects, NewProfile(threads[t].company, threads[t].entry))
    /\ Goto(t, "line46")
    /\ UNCHANGED <<SUBMISSION_HISTORY, clock, ret>>

\* line 46: profile = SELLER_PROFILES[company]
Line46(t) ==
    /\ At(t, "line46")
    /\ threads' = [threads EXCEPT ![t].pc = "line47",
                                  ![t].profile = DictGet(SELLER_PROFILES, threads[t].company)]
    /\ UNCHANGED <<ledger, clock, ret>>

\* the load of profile[key] += ...
Load(t, line, key, next) ==
    /\ At(t, line)
    /\ threads' = [threads EXCEPT ![t].pc = next,
                                  ![t].tmp = objects[threads[t].profile][key]]
    /\ UNCHANGED <<ledger, clock, ret>>

\* the store of profile[key] += amount
Store(t, line, key, amount, next) ==
    /\ At(t, line)
    /\ objects' = [objects EXCEPT ![threads[t].profile][key] = threads[t].tmp + amount]
    /\ Goto(t, next)
    /\ UNCHANGED <<SUBMISSION_HISTORY, SELLER_PROFILES, clock, ret>>

Line47_load(t) == Load(t, "line47", "total_submissions", "line47_store")
Line47_store(t) == Store(t, "line47_store", "total_submissions", 1, "line48")
Line48_load(t) == Load(t, "line48", "total_risk_score", "line48_store")
Line48_store(t) ==
    Store(t, "line48_store", "total_risk_score", threads[t].entry.risk_score, "line49")

Line49(t) ==
    /\ At(t, "line49")
    /\ objects' = [objects EXCEPT ![threads[t].profile].last_seen = threads[t].entry.timestamp]
    /\ Goto(t, "line51")
    /\ UNCHANGED <<SUBMISSION_HISTORY, SELLER_PROFILES, clock, ret>>

\* lines 51-56: the counter the verdict selects
VerdictCounter(verdict) ==
    IF verdict = "GREENWASHED" THEN "greenwashed_count"
    ELSE IF verdict = "REVIEW_REQUIRED" THEN "review_count"
    ELSE "verified_count"

Line51_load(t) ==
    Load(t, "line51", VerdictCounter(threads[t].entry.verdict), "line51_store")
Line51_store(t) ==
    Store(t, "line51_store", VerdictCounter(threads[t].entry.verdict), 1, "line58")

\* lines 58-59, one iteration; the increment of a phrase is taken as one step.
\* A KeyError ends the call: the thread's request fails.
Line59(t) ==
    LET me == threads[t]
        rp == objects[me.profile].recurring_phrases
        phrase == me.entry.claim_phrases[me.i]
    IN  /\ At(t, "line58")
        /\ me.i <= Len(me.entry.claim_phrases)
        /\ IF PhraseRaises(rp, phrase)
           THEN /\ threads' = [threads EXCEPT ![t] = Idle]
                /\ UNCHANGED objects
           ELSE /\ objects' = [objects EXCEPT
                                 ![me.profile].recurring_phrases = IncrementPhrase(rp, phrase)]
                /\ threads' = [threads EXCEPT ![t].i = me.i + 1]
        /\ UNCHANGED <<SUBMISSION_HISTORY, SELLER_PROFILES, clock, ret>>

\* line 62, after the loop
Line62(t) ==
    LET me == threads[t] IN
    /\ At(t, "line58")
    /\ me.i > Len(me.entry.claim_phrases)
    /\ objects' = [objects EXCEPT ![me.profile] =
                     SetItem(@, "alert_level", _compute_alert_level(@))]
    /\ Goto(t, "line63")
    /\ UNCHANGED <<SUBMISSION_HISTORY, SELLER_PROFILES, clock, ret>>

Line63(t) ==
    /\ At(t, "line63")
    /\ objects' = [objects EXCEPT ![threads[t].profile] =
                     SetItem(@, "avg_risk_score",
                             PyRound(@.total_risk_score, @.total_submissions))]
    /\ Goto(t, "line64")
    /\ UNCHANGED <<SUBMISSION_HISTORY, SELLER_PROFILES, clock, ret>>

\* line 64, and the return
Line64(t) ==
    /\ At(t, "line64")
    /\ objects' = [objects EXCEPT ![threads[t].profile].recurring_phrases =
                     [kind |-> "dict", items |-> @.items]]
    /\ threads' = [threads EXCEPT ![t] = Idle]
    /\ UNCHANGED <<SUBMISSION_HISTORY, SELLER_PROFILES, clock, ret>>

\* ------------------------------------------------------------------- str
\* A str that the code lower-cases, searches or slices is the sequence of its
\* characters.
UpperCase == <<"A", "B", "C", "D", "E", "F", "G", "H", "I", "J", "K", "L", "M", "N", "O", "P", "Q", "R", "S", "T", "U", "V", "W", "X", "Y", "Z">>
LowerCase == <<"a", "b", "c", "d", "e", "f", "g", "h", "i", "j", "k", "l", "m", "n", "o", "p", "q", "r", "s", "t", "u", "v", "w", "x", "y", "z">>

\* str.lower() of one character. Unicode's full case mapping sends U+0130
\* (capital I with dot above) to two characters, i and U+0307.
LowerOf ==
    [c \in {UpperCase[i] : i \in 1..Len(UpperCase)} |->
        LowerCase[CHOOSE i \in 1..Len(UpperCase) : UpperCase[i] = c]]

LowerChar(c) ==
    IF c \in DOMAIN LowerOf THEN <<LowerOf[c]>>
    ELSE IF c = "U+0130" THEN <<"i", "U+0307">>
    ELSE <<c>>

\* s.lower(): the lower-cased characters, in order (halving keeps the
\* evaluation shallow on long texts)
RECURSIVE lower(_)
lower(s) ==
    IF s = <<>> THEN <<>>
    ELSE IF Len(s) = 1 THEN LowerChar(s[1])
    ELSE lower(SubSeq(s, 1, Len(s) \div 2)) \o lower(SubSeq(s, Len(s) \div 2 + 1, Len(s)))

\* sub in s
In(sub, s) ==
    \E i \in 0..(Len(s) - Len(sub)) : SubSeq(s, i + 1, i + Len(sub)) = sub

\* x in xs, for a list
Contains(xs, x) == \E i \in 1..Len(xs) : xs[i] = x

\* int(s) for a str of decimal digits
Digits == <<"0", "1", "2", "3", "4", "5", "6", "7", "8", "9">>
DigitValue(c) == (CHOOSE i \in 1..10 : Digits[i] = c) - 1
RECURSIVE ParseInt(_)
ParseInt(s) ==
    IF s = <<>> THEN 0
    ELSE 10 * ParseInt(SubSeq(s, 1, Len(s) - 1)) + DigitValue(s[Len(s)])

\* ------------------------------------------------------------- datetime.date
\* datetime.strptime(s, "%Y-%m-%d").date() for a zero-padded date
ParseDate(s) ==
    [year |-> ParseInt(SubSeq(s, 1, 4)),
     month |-> ParseInt(SubSeq(s, 6, 7)),
     day |-> ParseInt(SubSeq(s, 9, 10))]

IsLeap(y) == y % 4 = 0 /\ (y % 100 # 0 \/ y % 400 = 0)
DaysBeforeMonth == <<0, 31, 59, 90, 120, 151, 181, 212, 243, 273, 304, 334>>

\* date.toordinal(): the days from 0001-01-01, which is day 1
ToOrdinal(date) ==
    LET y == date.year - 1
    IN  y * 365 + (y \div 4) - (y \div 100) + (y \div 400)
        + DaysBeforeMonth[date.month]
        + (IF date.month > 2 /\ IsLeap(date.year) THEN 1 ELSE 0)
        + date.day

\* --------------------------------------------------------- cert_matcher.py
\* The registry file is data, outside the source: these are records of the
\* shape _verify_single_cert reads. The second record repeats the company and
\* certificate type of the first: the code takes matches[0].
RegistryAtLoad ==
    << [company |-> <<"G", "r", "e", "e", "n", "W", "o", "o", "d", " ", "L", "t", "d">>, cert_type |-> <<"F", "S", "C">>,
        expiry |-> <<"2", "0", "2", "6", "-", "1", "2", "-", "3", "1">>,
        applicable_categories |-> <<<<"t", "i", "m", "b", "e", "r">>, <<"F", "u", "r", "n", "i", "t", "u", "r", "e">>>>,
        certificate_number |-> "FSC-C000001", issuing_body |-> "FSC International"],
       [company |-> <<"G", "r", "e", "e", "n", "W", "o", "o", "d", " ", "L", "t", "d">>, cert_type |-> <<"F", "S", "C">>,
        expiry |-> <<"2", "0", "2", "4", "-", "0", "2", "-", "2", "9">>,
        applicable_categories |-> <<<<"t", "e", "x", "t", "i", "l", "e", "s">>>>,
        certificate_number |-> "FSC-C000002", issuing_body |-> "FSC International"],
       [company |-> <<"G", "r", "e", "e", "n", "W", "o", "o", "d", " ", "L", "t", "d">>, cert_type |-> <<"P", "E", "F", "C">>,
        expiry |-> <<"2", "0", "2", "6", "-", "0", "9", "-", "3", "0">>,
        applicable_categories |-> <<<<"t", "i", "m", "b", "e", "r">>>>,
        certificate_number |-> "PEFC-0001", issuing_body |-> "PEFC Council"] >>

\* CERT_GUIDANCE, lines 17-105; the texts are shortened to ASCII
GuidanceAtLoad ==
    << [key |-> <<"F", "S", "C">>, value |->
          [full_name |-> "Forest Stewardship Council",
           url |-> "https://fsc.org/en/for-business/certification",
           timeline |-> "3-6 months", cost_tier |-> "Low-Medium",
           description |-> "Required for timber, paper, wood-based, and packaging products",
           steps |-> 4]],
       [key |-> <<"P", "E", "F", "C">>, value |->
          [full_name |-> "Programme for Endorsement of Forest Certification",
           url |-> "https://pefc.org/find-certified/certified-businesses",
           timeline |-> "2-4 months", cost_tier |-> "Low",
           description |-> "Alternative to FSC for forest and paper product certification",
           steps |-> 3]],
       [key |-> <<"R", "a", "i", "n", "f", "o", "r", "e", "s", "t", " ", "A", "l", "l", "i", "a", "n", "c", "e">>, value |->
          [full_name |-> "Rainforest Alliance Certification",
           url |-> "https://www.rainforest-alliance.org/business/certification",
           timeline |-> "4-8 months", cost_tier |-> "Medium",
           description |-> "For agricultural commodities, food, and beverage products",
           steps |-> 4]],
       [key |-> <<"I", "S", "O", " ", "1", "4", "0", "0", "1">>, value |->
          [full_name |-> "ISO 14001 Environmental Management System",
           url |-> "https://www.iso.org/iso-14001-environmental-management.html",
           timeline |-> "6-12 months", cost_tier |-> "Medium-High",
           description |-> "Environmental management system standard applicable to any industry",
           steps |-> 4]],
       [key |-> <<"C", "I", "T", "E", "S">>, value |->
          [full_name |-> "Convention on International Trade in Endangered Species",
           url |-> "https://cites.org/eng/resources/permits.php",
           timeline |-> "3-5 months", cost_tier |-> "Low",
           description |-> "Required for products derived from or containing wildlife materials",
           steps |-> 3]],
       [key |-> <<"T", "N", "F", "D">>, value |->
          [full_name |-> "Taskforce on Nature-related Financial Disclosures",
           url |-> "https://tnfd.global/engage/adopt-and-report",
           timeline |-> "Ongoing (reporting framework)", cost_tier |-> "Variable",
           description |-> "Nature-related risk disclosure framework for financial reporting",
           steps |-> 3]],
       [key |-> <<"C", "a", "r", "b", "o", "n", " ", "T", "r", "u", "s", "t">>, value |->
          [full_name |-> "Carbon Trust Standard",
           url |-> "https://www.carbontrust.com/our-work/certifications-and-standards",
           timeline |-> "3-6 months", cost_tier |-> "Medium",
           description |-> "Carbon footprint measurement and reduction certification",
           steps |-> 3]] >>

\* CERT_GUIDANCE.get(cert_type, {}); the empty dict is the record with no field
EmptyDict == [k \in {} |-> 0]
GuidanceFor(cert_type) ==
    IF DictHas(CERT_GUIDANCE, cert_type) THEN DictGet(CERT_GUIDANCE, cert_type) ELSE EmptyDict

\* lines 132-136
Matches(company, cert_type) ==
    SelectSeq(REGISTRY, LAMBDA r : /\ lower(r.company) = lower(company)
                                   /\ lower(r.cert_type) = lower(cert_type))

\* (expiry_date - today).days
DaysUntilExpiry(record) == ToOrdinal(ParseDate(record.expiry)) - ToOrdinal(today)

\* line 153
IsExpired_inclusive(record) == ToOrdinal(ParseDate(record.expiry)) <= ToOrdinal(today)

IsExpired(record) == ToOrdinal(ParseDate(record.expiry)) < ToOrdinal(today)

\* line 168
OutOfScope(record, category) ==
    ~Contains([i \in 1..Len(record.applicable_categories) |->
                  lower(record.applicable_categories[i])], lower(category))

\* lines 184-186; None is <<>>, the warning is <<days>>
ExpiryWarning(days_until_expiry) ==
    IF 0 < days_until_expiry /\ days_until_expiry < 90
    THEN <<days_until_expiry>>
    ELSE <<>>

Abs(n) == IF n < 0 THEN -n ELSE n

_verify_single_cert(company, cert_type, category) ==
    LET matches == Matches(company, cert_type)
        record == matches[1]
    IN  IF matches = <<>>
        THEN [cert |-> cert_type, status |-> "NOT_FOUND", severity |-> "high",
              reason |-> <<"No certificate found in registry for", cert_type, company>>,
              remediation |-> GuidanceFor(cert_type),
              registry_checked |-> TRUE]
        ELSE IF IsExpired(record)
        THEN [cert |-> cert_type, status |-> "EXPIRED", severity |-> "high",
              reason |-> <<"Certificate expired on", record.expiry,
                           Abs(DaysUntilExpiry(record)), "days ago">>,
              certificate_number |-> record.certificate_number,
              remediation |-> SetItem(GuidanceFor(cert_type), "action",
                  <<"Renew your existing certificate through your certifying body">>),
              registry_checked |-> TRUE]
        ELSE IF OutOfScope(record, category)
        THEN [cert |-> cert_type, status |-> "SCOPE_MISMATCH", severity |-> "medium",
              reason |-> <<"Certificate covers", record.applicable_categories,
                           "does not extend to", category>>,
              certificate_number |-> record.certificate_number,
              expiry |-> record.expiry,
              remediation |-> SetItem(GuidanceFor(cert_type), "action",
                  <<"Contact", record.issuing_body, "to extend scope to cover", category>>),
              registry_checked |-> TRUE]
        ELSE [cert |-> cert_type, status |-> "VERIFIED", severity |-> "none",
              reason |-> <<"Valid until", record.expiry>>,
              certificate_number |-> record.certificate_number,
              issuing_body |-> record.issuing_body,
              expiry_warning |-> ExpiryWarning(DaysUntilExpiry(record)),
              registry_checked |-> TRUE]

\* lines 202-215
Recommendations ==
    << [key |-> <<"t", "i", "m", "b", "e", "r">>, value |-> <<<<"F", "S", "C">>, <<"P", "E", "F", "C">>, <<"C", "a", "r", "b", "o", "n", " ", "T", "r", "u", "s", "t">>>>],
       [key |-> <<"p", "a", "p", "e", "r">>, value |-> <<<<"F", "S", "C">>, <<"P", "E", "F", "C">>>>],
       [key |-> <<"f", "u", "r", "n", "i", "t", "u", "r", "e">>, value |-> <<<<"F", "S", "C">>, <<"I", "S", "O", " ", "1", "4", "0", "0", "1">>>>],
       [key |-> <<"t", "e", "x", "t", "i", "l", "e", "s">>, value |-> <<<<"P", "E", "F", "C">>, <<"I", "S", "O", " ", "1", "4", "0", "0", "1">>>>],
       [key |-> <<"f", "o", "o", "d">>, value |-> <<<<"R", "a", "i", "n", "f", "o", "r", "e", "s", "t", " ", "A", "l", "l", "i", "a", "n", "c", "e">>>>],
       [key |-> <<"a", "g", "r", "i", "c", "u", "l", "t", "u", "r", "e">>, value |-> <<<<"R", "a", "i", "n", "f", "o", "r", "e", "s", "t", " ", "A", "l", "l", "i", "a", "n", "c", "e">>, <<"I", "S", "O", " ", "1", "4", "0", "0", "1">>>>],
       [key |-> <<"c", "o", "s", "m", "e", "t", "i", "c", "s">>, value |-> <<<<"I", "S", "O", " ", "1", "4", "0", "0", "1">>>>],
       [key |-> <<"p", "e", "r", "s", "o", "n", "a", "l", " ", "c", "a", "r", "e">>, value |-> <<<<"I", "S", "O", " ", "1", "4", "0", "0", "1">>>>],
       [key |-> <<"p", "a", "c", "k", "a", "g", "i", "n", "g">>, value |-> <<<<"F", "S", "C">>, <<"C", "a", "r", "b", "o", "n", " ", "T", "r", "u", "s", "t">>>>],
       [key |-> <<"w", "i", "l", "d", "l", "i", "f", "e", " ", "p", "r", "o", "d", "u", "c", "t", "s">>, value |-> <<<<"C", "I", "T", "E", "S">>>>],
       [key |-> <<"e", "x", "o", "t", "i", "c", " ", "m", "a", "t", "e", "r", "i", "a", "l", "s">>, value |-> <<<<"C", "I", "T", "E", "S">>>>],
       [key |-> <<"l", "e", "a", "t", "h", "e", "r">>, value |-> <<<<"C", "I", "T", "E", "S">>, <<"I", "S", "O", " ", "1", "4", "0", "0", "1">>>>] >>

_identify_missing_certs(category, claimed) ==
    LET recommended == IF DictHas(Recommendations, lower(category))
                       THEN DictGet(Recommendations, lower(category))
                       ELSE <<>>
        unclaimed == SelectSeq(recommended, LAMBDA c : ~Contains(claimed, c))
    IN  [i \in 1..Len(unclaimed) |->
            [cert |-> unclaimed[i],
             reason |-> <<"Recommended for", category, "products">>,
             guidance |-> GuidanceFor(unclaimed[i])]]

_overall_status(results) ==
    IF results = <<>> THEN "NO_CERTS_CLAIMED"
    ELSE IF \A i \in 1..Len(results) : results[i].status = "VERIFIED" THEN "ALL_VERIFIED"
    ELSE IF \E i \in 1..Len(results) : results[i].status \in {"NOT_FOUND", "EXPIRED"}
         THEN "FAILED"
    ELSE "PARTIAL"

VerifyResult(company_name, claimed_certs, product_category) ==
    LET results == [i \in 1..Len(claimed_certs) |->
                       _verify_single_cert(company_name, claimed_certs[i], product_category)]
    IN  [verification_results |-> results,
         missing_recommended |-> _identify_missing_certs(product_category, claimed_certs),
         overall_cert_status |-> _overall_status(results)]

\* the registry and the guidance table are read, never written
verify_certificates(company_name, claimed_certs, product_category) ==
    /\ ret' = Return("verify_certificates",
                     <<company_name, claimed_certs, product_category>>,
                     VerifyResult(company_name, claimed_certs, product_category))
    /\ UNCHANGED <<ledger, clock, threads, tables, request, today>>

\* ---------------------------------------------------------- risk_scorer.py
\* A severity multiplier is a float. The multipliers of the table below are
\* multiples of 1/4, which a binary float holds exactly, as it holds every
\* product and sum the scorer forms from them: the accumulated score is
\* carried as a whole number of quarters.
Scale == 4

\* The SDG table file is data, outside the source: these are entries of the
\* shape _find_sdg_target reads. "ecosystem" is a keyword of two targets (the
\* first in table order is returned) and the last entry has no keywords.
SdgTargetsAtLoad ==
    << [key |-> "15.1", value |->
          [label |-> "Conserve and restore terrestrial and freshwater ecosystems",
           severity |-> 5,
           keywords |-> <<<<"e", "c", "o", "s", "y", "s", "t", "e", "m">>, <<"N", "a", "t", "u", "r", "a", "l">>>>]],
       [key |-> "15.2", value |->
          [label |-> "End deforestation and restore degraded forests",
           severity |-> 6,
           keywords |-> <<<<"f", "o", "r", "e", "s", "t">>, <<"e", "c", "o", "s", "y", "s", "t", "e", "m">>>>]],
       [key |-> "15.5", value |->
          [label |-> "Protect biodiversity and natural habitats",
           severity |-> 8]] >>

CLAIM_WEIGHTS == [absolute |-> 40, misleading |-> 30, vague |-> 15]

CERT_STATUS_PENALTIES ==
    [NOT_FOUND |-> 25, EXPIRED |-> 20, SCOPE_MISMATCH |-> 15, NO_CERTS_CLAIMED |-> 10]

\* line 106
AI_BOOST == [high |-> 15, medium |-> 8, low |-> 0]

\* line 136, for one target
Relevant(target_data, phrase) ==
    LET keywords == GetOr(target_data, "keywords", <<>>)
    IN  \E k \in 1..Len(keywords) :
            \/ In(lower(keywords[k]), lower(phrase))
            \/ In(lower(phrase), lower(keywords[k]))

\* _find_sdg_target over the table as it is when the call is made; None is <<>>
\* and a hit is a one-element tuple
_find_sdg_target(targets, phrase) ==
    LET hits == SelectSeq(targets, LAMBDA item : Relevant(item.value, phrase))
    IN  IF hits = <<>> THEN <<>>
        ELSE << [target |-> hits[1].key,
                 label |-> hits[1].value.label,
                 severity |-> hits[1].value.severity] >>

_classify_verdict(score) ==
    IF score < 20 THEN "VERIFIED"
    ELSE IF score < 50 THEN "REVIEW_REQUIRED"
    ELSE "GREENWASHED"

_calculate_visibility_impact_le(score) ==
    IF score <= 20
    THEN [action |-> "BOOST",
          adjustment |-> "+25% search ranking",
          badge |-> "Verified Green Product",
          badge_color |-> "green",
          description |-> "Product eligible for verified sustainability badge and search promotion"]
    ELSE IF score < 50
    THEN [action |-> "HOLD",
          adjustment |-> "No ranking change - pending review",
          badge |-> "Under Review",
          badge_color |-> "amber",
          description |-> "Product listing held pending seller clarification or certification submission"]
    ELSE [action |-> "DEMOTE",
          adjustment |-> "-40% search ranking",
          badge |-> "Unverified Claims",
          badge_color |-> "red",
          description |-> "Product demoted in search results until claims are verified or removed"]

_calculate_visibility_impact(score) ==
    IF score < 20
    THEN [action |-> "BOOST",
          adjustment |-> "+25% search ranking",
          badge |-> "Verified Green Product",
          badge_color |-> "green",
          description |-> "Product eligible for verified sustainability badge and search promotion"]
    ELSE IF score < 50
    THEN [action |-> "HOLD",
          adjustment |-> "No ranking change - pending review",
          badge |-> "Under Review",
          badge_color |-> "amber",
          description |-> "Product listing held pending seller clarification or certification submission"]
    ELSE [action |-> "DEMOTE",
          adjustment |-> "-40% search ranking",
          badge |-> "Unverified Claims",
          badge_color |-> "red",
          description |-> "Product demoted in search results until claims are verified or removed"]

\* a score_breakdown entry; points are kept in tenths (round(claim_score, 1))
Breakdown(source, type, tenths, sdg_target) ==
    [source |-> source, type |-> type, points |-> tenths, sdg_target |-> sdg_target]

\* lines 50-70. acc holds the locals score (in quarters), breakdown and
\* sdg_flags (the target ids, in order of insertion) and the SDG table:
\* sdg_flags[target_id] is the table's own entry, not a copy, so line 70
\* writes the key "target" into the table.
RECURSIVE ClaimLoop(_, _)
ClaimLoop(claims, acc) ==
    IF claims = <<>> THEN acc
    ELSE
    LET claim == Head(claims)
        base == GetOr(CLAIM_WEIGHTS, claim.type, 10)
        sdg_hit == _find_sdg_target(acc.targets, claim.phrase)
        multiplier == IF sdg_hit # <<>> THEN sdg_hit[1].severity ELSE Scale
        claim_score == base * multiplier
        target_id == sdg_hit[1].target
        first_hit == sdg_hit # <<>> /\ ~Contains(acc.sdg_flags, target_id)
    IN  ClaimLoop(Tail(claims),
            [score |-> acc.score + claim_score,
             breakdown |-> Append(acc.breakdown,
                 Breakdown(<<"Claim", claim.phrase>>, claim.type,
                           PyRound(claim_score * 10, Scale),
                           IF sdg_hit # <<>> THEN <<target_id>> ELSE <<>>)),
             sdg_flags |-> IF first_hit THEN Append(acc.sdg_flags, target_id)
                           ELSE acc.sdg_flags,
             targets |-> IF first_hit
                         THEN DictSet(acc.targets, target_id,
                                  SetItem(DictGet(acc.targets, target_id), "target", target_id))
                         ELSE acc.targets])

\* lines 73-82
RECURSIVE CertLoop(_, _)
CertLoop(cert_results, acc) ==
    IF cert_results = <<>> THEN acc
    ELSE
    LET cert == Head(cert_results)
        penalty == GetOr(CERT_STATUS_PENALTIES, cert.status, 0)
    IN  CertLoop(Tail(cert_results),
            IF penalty > 0
            THEN [acc EXCEPT !.score = @ + penalty * Scale,
                             !.breakdown = Append(@,
                                 Breakdown(<<"Certificate", cert.cert, cert.status>>,
                                           "cert_failure", penalty * 10, <<>>))]
            ELSE acc)

\* lines 85-92
ProofStep(claims, has_proof_markers, acc) ==
    IF ~has_proof_markers /\ Len(claims) > 0
    THEN [acc EXCEPT !.score = @ + 10 * Scale,
                     !.breakdown = Append(@,
                         Breakdown(<<"No verifiable proof markers found in description">>,
                                   "missing_proof", 10 * 10, <<>>))]
    ELSE acc

\* lines 95-103
FlagStep_uncapped(red_flags, acc) ==
    IF Len(red_flags) > 0
    THEN LET flag_penalty == Len(red_flags) * 5
         IN  [acc EXCEPT !.score = @ + flag_penalty * Scale,
                         !.breakdown = Append(@,
                             Breakdown(<<Len(red_flags), "linguistic red flag(s) detected">>,
                                       "linguistic_flags", flag_penalty * 10, <<>>))]
    ELSE acc

FlagStep(red_flags, acc) ==
    IF Len(red_flags) > 0
    THEN LET flag_penalty == Min(Len(red_flags) * 5, 20)
         IN  [acc EXCEPT !.score = @ + flag_penalty * Scale,
                         !.breakdown = Append(@,
                             Breakdown(<<Len(red_flags), "linguistic red flag(s) detected">>,
                                       "linguistic_flags", flag_penalty * 10, <<>>))]
    ELSE acc

\* lines 106-114
AiStep(ai_generated_risk, acc) ==
    LET ai_boost == GetOr(AI_BOOST, GetOr(ai_generated_risk, "risk", "low"), 0)
    IN  IF ai_boost > 0
        THEN [acc EXCEPT !.score = @ + ai_boost * Scale,
                         !.breakdown = Append(@,
                             Breakdown(<<"Possible AI-generated greenwashing content detected">>,
                                       "ai_generated_risk", ai_boost * 10, <<>>))]
        ELSE acc

\* line 116
FinalScore_unclamped(score) == PyRound(score, Scale)

FinalScore(score) == Min(PyRound(score, Scale), 100)

\* the whole of calculate_risk_score on a given SDG table: the returned dict
\* and the table as the call leaves it
RiskScore(targets, claims, cert_results, red_flags, has_proof_markers, ai_generated_risk) ==
    LET start == [score |-> 0, breakdown |-> <<>>, sdg_flags |-> <<>>, targets |-> targets]
        acc == AiStep(ai_generated_risk,
                 FlagStep(red_flags,
                   ProofStep(claims, has_proof_markers,
                     CertLoop(cert_results, ClaimLoop(claims, start)))))
        final_score == FinalScore(acc.score)
    IN  [targets |-> acc.targets,
         result |->
           [risk_score |-> final_score,
            verdict |-> _classify_verdict(final_score),
            sdg_targets_affected |->
                [i \in 1..Len(acc.sdg_flags) |-> DictGet(acc.targets, acc.sdg_flags[i])],
            score_breakdown |-> acc.breakdown,
            visibility_impact |-> _calculate_visibility_impact(final_score),
            total_claims |-> Len(claims),
            total_cert_failures |->
                Cardinality({i \in 1..Len(cert_results) : cert_results[i].status # "VERIFIED"})]]

calculate_risk_score(claims, cert_results, red_flags, has_proof_markers, ai_generated_risk) ==
    LET out == RiskScore(SDG_TARGETS, claims, cert_results, red_flags,
                         has_proof_markers, ai_generated_risk)
    IN  /\ SDG_TARGETS' = out.targets
        /\ ret' = Return("calculate_risk_score",
                         <<claims, cert_results, red_flags, has_proof_markers, ai_generated_risk>>,
                         out.result)
        /\ UNCHANGED <<ledger, clock, threads, KEYWORDS, REGISTRY, CERT_GUIDANCE, request, today>>

\* ------------------------------------------------------------ nlp_engine.py
\* The keyword file is data, outside the source: this is a taxonomy of the
\* shape extract_claims reads, claim type -> phrases. One phrase has capital
\* letters, one type is none of the three weighted ones, and "green" is listed
\* under two types.
KeywordsAtLoad ==
    << [key |-> "absolute", value |-> <<<<"1", "0", "0", "%", " ", "s", "u", "s", "t", "a", "i", "n", "a", "b", "l", "e">>, <<"z", "e", "r", "o", " ", "i", "m", "p", "a", "c", "t">>>>],
       [key |-> "misleading", value |-> <<<<"e", "c", "o", "-", "f", "r", "i", "e", "n", "d", "l", "y">>, <<"f", "o", "r", "e", "s", "t", " ", "f", "r", "i", "e", "n", "d", "l", "y">>>>],
       [key |-> "vague", value |-> <<<<"g", "r", "e", "e", "n">>, <<"e", "c", "o">>, <<"N", "a", "t", "u", "r", "a", "l">>>>],
       [key |-> "emerging", value |-> <<<<"n", "a", "t", "u", "r", "e", " ", "p", "o", "s", "i", "t", "i", "v", "e">>, <<"g", "r", "e", "e", "n">>>>] >>

\* s.find(sub)
find(s, sub) ==
    IF In(sub, s)
    THEN CHOOSE i \in 0..(Len(s) - Len(sub)) :
            /\ SubSeq(s, i + 1, i + Len(sub)) = sub
            /\ \A j \in 0..(i - 1) : SubSeq(s, j + 1, j + Len(sub)) # sub
    ELSE -1

\* s[a:b] for 0 <= a
Slice(s, a, b) == SubSeq(s, a + 1, Min(b, Len(s)))

\* lines 55-59, in hundredths
BASE_CONFIDENCE == [absolute |-> 92, misleading |-> 85, vague |-> 78]

_extract_context(text, start, length) ==
    LET ctx_start == Max(0, start - 40)
        ctx_end == Min(Len(text), start + length + 40)
        snippet == Slice(text, ctx_start, ctx_end)
    IN  IF ctx_start > 0 THEN <<".", ".", ".">> \o snippet \o <<".", ".", ".">> ELSE snippet \o <<".", ".", ".">>

\* the (claim type, phrase) pairs in the order the two loops of lines 46-47 visit them
RECURSIVE Candidates(_)
Candidates(keywords) ==
    IF keywords = <<>> THEN <<>>
    ELSE [i \in 1..Len(Head(keywords).value) |->
             [type |-> Head(keywords).key, phrase |-> Head(keywords).value[i]]]
         \o Candidates(Tail(keywords))

\* lines 48-70
RECURSIVE KeywordLoop(_, _, _, _)
KeywordLoop(candidates, text, seen_phrases, detected) ==
    IF candidates = <<>> THEN detected
    ELSE
    LET claim_type == Head(candidates).type
        phrase == Head(candidates).phrase
        text_lower == lower(text)
        start_idx == find(text_lower, lower(phrase))
        base_confidence == GetOr(BASE_CONFIDENCE, claim_type, 75)
        position_boost == IF start_idx < 50 THEN 5 ELSE 0
    IN  IF In(lower(phrase), text_lower) /\ phrase \notin seen_phrases
        THEN KeywordLoop(Tail(candidates), text, seen_phrases \cup {phrase},
                 Append(detected,
                     [phrase |-> phrase,
                      type |-> claim_type,
                      confidence |-> Min(base_confidence + position_boost, 99),
                      position |-> start_idx,
                      context |-> _extract_context(text, start_idx, Len(phrase))]))
        ELSE KeywordLoop(Tail(candidates), text, seen_phrases, detected)

\* \w of the re module
IsWordChar(c) ==
    \/ \E i \in 1..Len(UpperCase) : c = UpperCase[i] \/ c = LowerCase[i]
    \/ \E i \in 1..Len(Digits) : c = Digits[i]
    \/ c \in {"_", "U+0130"}

\* \b at offset i of s
WordBoundary(s, i) ==
    (i > 0 /\ IsWordChar(s[i])) # (i < Len(s) /\ IsWordChar(s[i + 1]))

\* LINGUISTIC_RED_FLAGS with the alternations written out, in the order the
\* regex engine tries them, and the descriptions of lines 100-106
FLAG_PATTERNS ==
    << [alternatives |-> <<<<"o", "u", "r", " ", "c", "o", "m", "m", "i", "t", "m", "e", "n", "t", " ", "t", "o">>, <<"w", "e", " ", "a", "r", "e", " ", "c", "o", "m", "m", "i", "t", "t", "e", "d", " ", "t", "o">>,
                           <<"w", "e", " ", "s", "t", "r", "i", "v", "e", " ", "t", "o">>, <<"w", "e", " ", "a", "i", "m", " ", "t", "o">>>>,
        description |-> "Vague pledge without measurable target"],
       [alternatives |-> <<<<"u", "p", " ", "t", "o">>, <<"a", "s", " ", "m", "u", "c", "h", " ", "a", "s">>, <<"c", "a", "n", " ", "b", "e">>, <<"m", "a", "y", " ", "b", "e">>>>,
        description |-> "Hedging language undermining claim strength"],
       [alternatives |-> <<<<"g", "r", "e", "e", "n", "e", "r">>, <<"m", "o", "r", "e", " ", "s", "u", "s", "t", "a", "i", "n", "a", "b", "l", "e">>, <<"b", "e", "t", "t", "e", "r", " ", "f", "o", "r">>, <<"c", "l", "e", "a", "n", "e", "r", " ", "t", "h", "a", "n">>>>,
        description |-> "Unqualified comparative - no reference point given"],
       [alternatives |-> <<<<"d", "e", "s", "i", "g", "n", "e", "d", " ", "w", "i", "t", "h", " ", "n", "a", "t", "u", "r", "e">>, <<"m", "a", "d", "e", " ", "w", "i", "t", "h", " ", "n", "a", "t", "u", "r", "e">>,
                           <<"c", "r", "a", "f", "t", "e", "d", " ", "w", "i", "t", "h", " ", "n", "a", "t", "u", "r", "e">>, <<"i", "n", "s", "p", "i", "r", "e", "d", " ", "b", "y", " ", "n", "a", "t", "u", "r", "e">>>>,
        description |-> "Nature-association language without substance"],
       [alternatives |-> <<<<"r", "e", "s", "p", "o", "n", "s", "i", "b", "l", "y", " ", "m", "a", "d", "e">>, <<"r", "e", "s", "p", "o", "n", "s", "i", "b", "l", "y", " ", "s", "o", "u", "r", "c", "e", "d">>, <<"r", "e", "s", "p", "o", "n", "s", "i", "b", "l", "y", " ", "c", "r", "a", "f", "t", "e", "d">>,
                           <<"t", "h", "o", "u", "g", "h", "t", "f", "u", "l", "l", "y", " ", "m", "a", "d", "e">>, <<"t", "h", "o", "u", "g", "h", "t", "f", "u", "l", "l", "y", " ", "s", "o", "u", "r", "c", "e", "d">>, <<"t", "h", "o", "u", "g", "h", "t", "f", "u", "l", "l", "y", " ", "c", "r", "a", "f", "t", "e", "d">>,
                           <<"c", "a", "r", "e", "f", "u", "l", "l", "y", " ", "m", "a", "d", "e">>, <<"c", "a", "r", "e", "f", "u", "l", "l", "y", " ", "s", "o", "u", "r", "c", "e", "d">>, <<"c", "a", "r", "e", "f", "u", "l", "l", "y", " ", "c", "r", "a", "f", "t", "e", "d">>>>,
        description |-> "Adverb-washing - adverb not backed by standard"] >>

\* the alternative matches at offset i, between two word boundaries
MatchesAt(s, alt, i) ==
    /\ i + Len(alt) <= Len(s)
    /\ SubSeq(s, i + 1, i + Len(alt)) = alt
    /\ WordBoundary(s, i)
    /\ WordBoundary(s, i + Len(alt))

\* re.search(pattern, s): None is <<>>, a match is <<[group, start]>>; the
\* leftmost offset wins and, at it, the first alternative that matches
Search(alternatives, s) ==
    LET offsets == {i \in 0..Len(s) :
                       \E a \in 1..Len(alternatives) : MatchesAt(s, alternatives[a], i)}
        start == CHOOSE i \in offsets : \A j \in offsets : i <= j
        first == CHOOSE a \in 1..Len(alternatives) :
                    /\ MatchesAt(s, alternatives[a], start)
                    /\ \A b \in 1..(a - 1) : ~MatchesAt(s, alternatives[b], start)
    IN  IF offsets = {} THEN <<>>
        ELSE << [group |-> alternatives[first], start |-> start] >>

_detect_red_flags(text) ==
    LET text_lower == lower(text)
        found == SelectSeq(FLAG_PATTERNS,
                           LAMBDA p : Search(p.alternatives, text_lower) # <<>>)
    IN  [i \in 1..Len(found) |->
            [pattern |-> Search(found[i].alternatives, text_lower)[1].group,
             description |-> found[i].description,
             position |-> Search(found[i].alternatives, text_lower)[1].start]]

PROOF_MARKERS ==
    << <<"c", "e", "r", "t", "i", "f", "i", "c", "a", "t", "e">>, <<"c", "e", "r", "t", "i", "f", "i", "e", "d">>, <<"c", "e", "r", "t", "i", "f", "i", "c", "a", "t", "i", "o", "n">>, <<"v", "e", "r", "i", "f", "i", "e", "d", " ", "b", "y">>,
       <<"a", "u", "d", "i", "t", "e", "d", " ", "b", "y">>, <<"t", "h", "i", "r", "d", "-", "p", "a", "r", "t", "y">>, <<"t", "h", "i", "r", "d", " ", "p", "a", "r", "t", "y">>, <<"i", "s", "o", " ">>, <<"f", "s", "c">>,
       <<"p", "e", "f", "c">>, <<"r", "a", "i", "n", "f", "o", "r", "e", "s", "t", " ", "a", "l", "l", "i", "a", "n", "c", "e">>, <<"c", "a", "r", "b", "o", "n", " ", "t", "r", "u", "s", "t">>, <<"c", "i", "t", "e", "s">>,
       <<"r", "e", "g", "i", "s", "t", "r", "a", "t", "i", "o", "n", " ", "n", "u", "m", "b", "e", "r">>, <<"c", "e", "r", "t", " ", "n", "o">>, <<"l", "i", "c", "e", "n", "s", "e", " ", "n", "o">> >>

_has_proof_markers(text_lower) ==
    \E m \in 1..Len(PROOF_MARKERS) : In(PROOF_MARKERS[m], text_lower)

\* s.split(sep) for a one-character separator: every separator ends a piece
RECURSIVE SplitOn(_, _)
SplitOn(s, sep) ==
    IF ~Contains(s, sep) THEN <<s>>
    ELSE LET i == CHOOSE k \in 1..Len(s) : s[k] = sep /\ \A j \in 1..(k - 1) : s[j] # sep
         IN  <<SubSeq(s, 1, i - 1)>> \o SplitOn(SubSeq(s, i + 1, Len(s)), sep)

\* s.split(): the pieces between runs of whitespace, none of them empty
Words(s) == SelectSeq(SplitOn(s, " "), LAMBDA w : w # <<>>)

GREEN_WORDS ==
    { <<"s", "u", "s", "t", "a", "i", "n", "a", "b", "l", "e">>, <<"e", "c", "o">>, <<"g", "r", "e", "e", "n">>, <<"n", "a", "t", "u", "r", "a", "l">>, <<"o", "r", "g", "a", "n", "i", "c">>,
      <<"b", "i", "o", "d", "e", "g", "r", "a", "d", "a", "b", "l", "e">>, <<"r", "e", "n", "e", "w", "a", "b", "l", "e">>, <<"e", "t", "h", "i", "c", "a", "l">>, <<"r", "e", "s", "p", "o", "n", "s", "i", "b", "l", "e">>, <<"c", "o", "n", "s", "c", "i", "o", "u", "s">> }

UNITS == { <<"k", "g">>, <<"t", "o", "n", "n", "e", "s">>, <<"h", "e", "c", "t", "a", "r", "e", "s">>, <<"k", "m">> }

IsDigit(c) == \E i \in 1..Len(Digits) : c = Digits[i]

\* the text after offset i with its leading whitespace removed
RECURSIVE AfterSpaces(_, _)
AfterSpaces(s, i) ==
    IF i < Len(s) /\ s[i + 1] = " " THEN AfterSpaces(s, i + 1) ELSE SubSeq(s, i + 1, Len(s))

\* re.search(r'\d+%|\d+\s*(kg|tonnes|hectares|km)', text) finds a match
HasNumbers(text) ==
    \E i \in 1..Len(text) :
        /\ IsDigit(text[i])
        /\ \/ (i < Len(text) /\ text[i + 1] = "%")
           \/ \E u \in UNITS : SubSeq(AfterSpaces(text, i), 1, Len(u)) = u

_assess_ai_generated_risk(text) ==
    LET words == Words(text)
        green_word_count == Len(SelectSeq(words, LAMBDA w : lower(w) \in GREEN_WORDS))
        dense == 100 * green_word_count > 8 * Len(words)
        sentences == SplitOn(text, ".")
        total_len == SeqSum([i \in 1..Len(sentences) |-> Len(Words(sentences[i]))])
        uniform == /\ 15 * Max(Len(sentences), 1) < total_len
                   /\ total_len < 22 * Max(Len(sentences), 1)
        no_data == ~HasNumbers(text) /\ Len(words) > 30
        score == (IF dense THEN 30 ELSE 0) + (IF uniform THEN 20 ELSE 0)
                 + (IF no_data THEN 25 ELSE 0)
        indicators ==
            (IF dense
             THEN << <<"High green keyword density", PyRound(1000 * green_word_count, Len(words))>> >>
             ELSE <<>>)
            \o (IF uniform THEN << <<"Unusually uniform sentence length pattern">> >> ELSE <<>>)
            \o (IF no_data THEN << <<"No specific measurements or data points found">> >> ELSE <<>>)
    IN  IF words = <<>> THEN [risk |-> "low", score |-> 0, indicators |-> <<>>]
        ELSE [risk |-> IF score >= 50 THEN "high" ELSE IF score >= 25 THEN "medium" ELSE "low",
              score |-> score,
              indicators |-> indicators]

ExtractResult(keywords, text) ==
    LET detected == KeywordLoop(Candidates(keywords), text, {}, <<>>)
    IN  [claims |-> detected,
         red_flags |-> _detect_red_flags(text),
         has_proof_markers |-> _has_proof_markers(lower(text)),
         claim_count |-> Len(detected),
         is_ai_generated_risk |-> _assess_ai_generated_risk(text)]

\* the taxonomy is read, never written
extract_claims(text) ==
    /\ ret' = Return("extract_claims", <<text>>, ExtractResult(KEYWORDS, text))
    /\ UNCHANGED <<ledger, clock, threads, tables, request, today>>

\* ------------------------------------------------------------------ inputs
\* all lists over S of at most n elements
ListsUpTo(S, n) == UNION {[1..k -> S] : k \in 0..n}

\* certificates claimed in one verify_certificates call
MaxCerts == 2
\* the registered company, the same in capitals, and one the registry lacks
CertCompanies == { <<"G", "r", "e", "e", "n", "W", "o", "o", "d", " ", "L", "t", "d">>, <<"G", "R", "E", "E", "N", "W", "O", "O", "D", " ", "L", "T", "D">>, <<"A", "c", "m", "e", " ", "T", "i", "m", "b", "e", "r">> }
CertTypes == { <<"F", "S", "C">>, <<"f", "s", "c">>, <<"P", "E", "F", "C">>, <<"C", "I", "T", "E", "S">> }
Categories == { <<"t", "i", "m", "b", "e", "r">>, <<"T", "i", "m", "b", "e", "r">>, <<"f", "u", "r", "n", "i", "t", "u", "r", "e">>, <<"t", "e", "x", "t", "i", "l", "e", "s">> }
\* date.today(): 91, 90, 89, 1 and 0 days before the first record's expiry,
\* and the day after it
Todays ==
    { ParseDate(<<"2", "0", "2", "6", "-", "1", "0", "-", "0", "1">>), ParseDate(<<"2", "0", "2", "6", "-", "1", "0", "-", "0", "2">>), ParseDate(<<"2", "0", "2", "6", "-", "1", "0", "-", "0", "3">>),
      ParseDate(<<"2", "0", "2", "6", "-", "1", "2", "-", "3", "0">>), ParseDate(<<"2", "0", "2", "6", "-", "1", "2", "-", "3", "1">>), ParseDate(<<"2", "0", "2", "7", "-", "0", "1", "-", "0", "1">>) }

VerifyRequests ==
    { [op |-> "verify_certificates", company_name |-> c,
       claimed_certs |-> l, product_category |-> k] :
          c \in CertCompanies, l \in ListsUpTo(CertTypes, MaxCerts), k \in Categories }

\* claims in one calculate_risk_score call
MaxClaims == 2
\* claims as calculate_risk_score reads them: c["type"] and c["phrase"].
\* "forest friendly" holds a keyword of 15.2, "eco" is inside a keyword of
\* 15.1, "natural" is a keyword of 15.1 in another case, "green" hits nothing.
ScoreClaims ==
    { [type |-> "absolute", phrase |-> <<"f", "o", "r", "e", "s", "t", " ", "f", "r", "i", "e", "n", "d", "l", "y">>],
      [type |-> "absolute", phrase |-> <<"g", "r", "e", "e", "n">>],
      [type |-> "misleading", phrase |-> <<"n", "a", "t", "u", "r", "a", "l">>],
      [type |-> "vague", phrase |-> <<"e", "c", "o">>],
      [type |-> "vague", phrase |-> <<"g", "r", "e", "e", "n">>],
      [type |-> "emerging", phrase |-> <<"g", "r", "e", "e", "n">>] }
CertResult(cert, status) == [cert |-> cert, status |-> status]
CertResultLists ==
    { <<>>,
      <<CertResult(<<"F", "S", "C">>, "NOT_FOUND")>>,
      <<CertResult(<<"F", "S", "C">>, "SCOPE_MISMATCH")>>,
      <<CertResult(<<"F", "S", "C">>, "VERIFIED"), CertResult(<<"P", "E", "F", "C">>, "EXPIRED")>>,
      <<CertResult(<<"F", "S", "C">>, "NOT_FOUND"), CertResult(<<"P", "E", "F", "C">>, "NOT_FOUND"),
        CertResult(<<"C", "I", "T", "E", "S">>, "NOT_FOUND"), CertResult(<<"T", "N", "F", "D">>, "NOT_FOUND")>> }
\* red flags as calculate_risk_score reads them: only their number, which
\* counts up to four
RedFlag(n) == [pattern |-> FLAG_PATTERNS[n].alternatives[1],
               description |-> FLAG_PATTERNS[n].description,
               position |-> 0]
RedFlagLists == { [i \in 1..n |-> RedFlag(i)] : n \in {0, 1, 3, Len(FLAG_PATTERNS)} }
\* the dict of _assess_ai_generated_risk, and one without the key "risk"
AiRisks ==
    { [risk |-> "high", score |-> 50, indicators |-> <<>>],
      [risk |-> "medium", score |-> 25, indicators |-> <<>>],
      [risk |-> "low", score |-> 0, indicators |-> <<>>],
      [score |-> 0, indicators |-> <<>>] }

ScoreRequests ==
    { [op |-> "calculate_risk_score", claims |-> c, cert_results |-> r,
       red_flags |-> f, has_proof_markers |-> p, ai_generated_risk |-> a] :
          c \in ListsUpTo(ScoreClaims, MaxClaims), r \in CertResultLists,
          f \in RedFlagLists, p \in BOOLEAN, a \in AiRisks }

\* pieces of product text put together in one extract_claims call
MaxFragments == 3
Fragments ==
    { <<"1", "0", "0", "%", " ", "S", "u", "s", "t", "a", "i", "n", "a", "b", "l", "e", " ", "b", "a", "m", "b", "o", "o", " ", "d", "e", "s", "k", ".", " ">>,
      <<"e", "c", "o", "-", "f", "r", "i", "e", "n", "d", "l", "y", " ", "a", "n", "d", " ", "g", "r", "e", "e", "n", " ">>,
      <<"W", "e", " ", "s", "t", "r", "i", "v", "e", " ", "t", "o", " ", "b", "e", " ", "g", "r", "e", "e", "n", "e", "r", ",", " ", "F", "S", "C", " ", "c", "e", "r", "t", "i", "f", "i", "e", "d", ".", " ">>,
      <<"U+0130">> \o <<"s", "t", "a", "n", "b", "u", "l", " ", "N", "a", "t", "u", "r", "a", "l", " ", "o", "a", "k", " ">>,
      <<"m", "a", "d", "e", " ", "w", "i", "t", "h", " ", "n", "a", "t", "u", "r", "e", ",", " ", "u", "p", " ", "t", "o", " ", "5", " ", "k", "g", " ">>,
      <<"t", "h", "i", "s", " ", "f", "i", "n", "e", " ", "d", "e", "s", "k", " ", "i", "s", " ", "b", "u", "i", "l", "t", " ", "b", "y", " ", "h", "a", "n", "d", " ", "i", "n", " ", "a", " ", "s", "m", "a", "l", "l", " ", "f", "a", "m", "i", "l", "y", " ", "w", "o", "r", "k", "s", "h", "o", "p", " ", "n", "e", "a", "r", " ", "t", "h", "e", " ", "o", "l", "d", " ", "r", "i", "v", "e", "r", " ">>,
      <<"g", "r", "e", "e", "n", " ", "e", "c", "o", " ", "n", "a", "t", "u", "r", "a", "l", " ", "o", "r", "g", "a", "n", "i", "c", " ">> }

RECURSIVE Concat(_)
Concat(pieces) == IF pieces = <<>> THEN <<>> ELSE Head(pieces) \o Concat(Tail(pieces))

Texts == { Concat(l) : l \in ListsUpTo(Fragments, MaxFragments) }

ExtractRequests == { [op |-> "extract_claims", text |-> t] : t \in Texts }

\* ---------------------------------------------------- the ledger, one call at a time
NoRequest == [op |-> "none"]

InitLedger ==
    /\ SUBMISSION_HISTORY = <<>>
    /\ SELLER_PROFILES = <<>>
    /\ objects = <<>>
    /\ clock = 1
    /\ ret = NoCall
    /\ threads = [t \in Threads |-> Idle]

\* lines 12-16 of risk_scorer.py, 13-14 of cert_matcher.py, 16-17 of nlp_engine.py
InitTables ==
    /\ KEYWORDS = KeywordsAtLoad
    /\ REGISTRY = RegistryAtLoad
    /\ SDG_TARGETS = SdgTargetsAtLoad
    /\ CERT_GUIDANCE = GuidanceAtLoad

Init ==
    /\ InitLedger
    /\ InitTables
    /\ request = NoRequest
    /\ today = ParseDate(<<"2", "0", "2", "6", "-", "1", "0", "-", "0", "1">>)

\* record_submission is called with a score and the verdict of that score, as
\* analyze_product calls it (main.py lines 97-103)
Next ==
    \/ /\ Len(SUBMISSION_HISTORY) < MaxSubmissions
       /\ \E company \in Companies, product \in Products,
             risk_score \in RiskScores, claims \in ClaimLists :
             record_submission(company, product, _classify_verdict(risk_score),
                               risk_score, claims)
    \/ \E company \in Companies : get_seller_risk_profile(company)
    \/ get_early_alerts
    \/ get_all_submissions
    \/ get_platform_stats

Spec == Init /\ [][Next]_vars

\* ------------------------------------------- the ledger under concurrent requests
\* requests served in one behaviour of SpecThreads
MaxRequests == 2
\* every request carries the same claims, so that no order of the calls, run
\* one after the other, raises the KeyError of line 59
ThreadClaimLists == { <<Claim("eco-friendly"), Claim("green")>> }

NextThreads ==
    /\ UNCHANGED <<tables, request, today>>
    /\ \E t \in Threads :
        \/ /\ clock <= MaxRequests
           /\ \E company \in Companies, product \in Products,
                 risk_score \in {20, 50}, claims \in ThreadClaimLists :
                 Call(t, company, product, _classify_verdict(risk_score), risk_score, claims)
        \/ Line26(t)
        \/ Line32(t)
        \/ Line33(t)
        \/ Line46(t)
        \/ Line47_load(t)
        \/ Line47_store(t)
        \/ Line48_load(t)
        \/ Line48_store(t)
        \/ Line49(t)
        \/ Line51_load(t)
        \/ Line51_store(t)
        \/ Line59(t)
        \/ Line62(t)
        \/ Line63(t)
        \/ Line64(t)

SpecThreads == Init /\ [][NextThreads]_vars

\* --------------------------------------------- one call of a pipeline component
\* verify_certificates applied to a request, on a given day
InitCert ==
    /\ InitLedger
    /\ InitTables
    /\ request \in VerifyRequests
    /\ today \in Todays

NextCert ==
    /\ ret = NoCall
    /\ request.op = "verify_certificates"
    /\ verify_certificates(request.company_name, request.claimed_certs,
                           request.product_category)

SpecCert == InitCert /\ [][NextCert]_vars

\* calculate_risk_score applied to a request
InitScore ==
    /\ InitLedger
    /\ InitTables
    /\ request \in ScoreRequests
    /\ today = ParseDate(<<"2", "0", "2", "6", "-", "1", "0", "-", "0", "1">>)

NextScore ==
    /\ ret = NoCall
    /\ request.op = "calculate_risk_score"
    /\ calculate_risk_score(request.claims, request.cert_results, request.red_flags,
                            request.has_proof_markers, request.ai_generated_risk)

SpecScore == InitScore /\ [][NextScore]_vars

\* extract_claims applied to a request
InitExtract ==
    /\ InitLedger
    /\ InitTables
    /\ request \in ExtractRequests
    /\ today = ParseDate(<<"2", "0", "2", "6", "-", "1", "0", "-", "0", "1">>)

NextExtract ==
    /\ ret = NoCall
    /\ request.op = "extract_claims"
    /\ extract_claims(request.text)

SpecExtract == InitExtract /\ [][NextExtract]_vars

\* any one of the three; the day matters to verify_certificates alone
InitCalls ==
    /\ InitLedger
    /\ InitTables
    /\ \/ request \in VerifyRequests /\ today \in Todays
       \/ request \in ExtractRequests \cup ScoreRequests /\ today = ParseDate(<<"2", "0", "2", "6", "-", "1", "0", "-", "0", "1">>)

NextCalls ==
    \/ NextExtract
    \/ NextCert
    \/ NextScore

SpecCalls == InitCalls /\ [][NextCalls]_vars

\* ----------------------------------------------------------------- main.py
\* lines 129-133, on the dict prior_profile names once record_submission is over
SellerHistory(prior_profile) ==
    [alert_level |-> GetOr(prior_profile, "alert_level", "LOW"),
     prior_submissions |-> GetOr(prior_profile, "total_submissions", 0),
     prior_greenwash_count |-> GetOr(prior_profile, "greenwashed_count", 0)]

\* lines 105-134
Response(submission, nlp_result, cert_result, risk, prior_profile) ==
    [product |-> [title |-> submission.product_title,
                  company |-> submission.company_name,
                  category |-> submission.product_category],
     nlp_analysis |-> [claims_detected |-> nlp_result.claims,
                       red_flags |-> nlp_result.red_flags,
                       has_proof_markers |-> nlp_result.has_proof_markers,
                       ai_generated_risk |-> nlp_result.is_ai_generated_risk,
                       claim_count |-> nlp_result.claim_count],
     certificate_analysis |-> cert_result,
     risk_assessment |-> [risk_score |-> risk.risk_score,
                          verdict |-> risk.verdict,
                          score_breakdown |-> risk.score_breakdown,
                          visibility_impact |-> risk.visibility_impact],
     seller_history |-> SellerHistory(prior_profile)]

\* The whole of analyze_product, lines 64-134: the three pipeline calls, the
\* lookup of the seller's profile, record_submission, and the response. Each
\* local of the handler is bound once, in the order of the code.
\* prior_profile is what get_seller_risk_profile returned: for a seller with
\* a profile it is the profile dict itself (a reference into objects), which
\* record_submission then updates, and the response is built from it
\* afterwards; for a seller without one it is a fresh placeholder dict.
\* A KeyError of record_submission leaves analyze_product as an exception,
\* after the log, the profile counters and the SDG table were written.
analyze_product(submission) ==
    \E nlp_result \in {ExtractResult(KEYWORDS, submission.product_title \o <<".", " ">>
                                                  \o submission.product_description)} :
    \E cert_result \in {VerifyResult(submission.company_name,
                                     submission.claimed_certifications,
                                     submission.product_category)} :
    \E scored \in {RiskScore(SDG_TARGETS, nlp_result.claims,
                             cert_result.verification_results, nlp_result.red_flags,
                             nlp_result.has_proof_markers,
                             nlp_result.is_ai_generated_risk)} :
    \E entry \in {Entry(submission.company_name, submission.product_title,
                        scored.result.verdict, scored.result.risk_score,
                        nlp_result.claims, clock)} :
    \E upd \in {_update_seller_profile(SELLER_PROFILES, objects,
                                       submission.company_name, entry)} :
    \E prior_profile \in {IF DictHas(SELLER_PROFILES, submission.company_name)
                          THEN upd.objects[DictGet(SELLER_PROFILES, submission.company_name)]
                          ELSE NoHistory(submission.company_name)} :
        /\ SDG_TARGETS' = scored.targets
        /\ clock' = clock + 1
        /\ SUBMISSION_HISTORY' = AppendEntry(SUBMISSION_HISTORY, entry)
        /\ SELLER_PROFILES' = upd.profiles
        /\ objects' = upd.objects
        /\ ret' = IF upd.raised
                  THEN Raise("analyze_product", <<submission>>, "KeyError")
                  ELSE Return("analyze_product", <<submission>>,
                              Response(submission, nlp_result, cert_result,
                                       scored.result, prior_profile))
        /\ UNCHANGED <<threads, KEYWORDS, REGISTRY, CERT_GUIDANCE, request, today>>

\* requests served in one behaviour of SpecAnalyze
MaxAnalyses == 2
\* descriptions that score VERIFIED (no claim), REVIEW_REQUIRED (one vague
\* claim, no proof) and GREENWASHED (two absolute claims, no proof)
Descriptions ==
    { <<"S", "o", "l", "i", "d", " ", "o", "a", "k", ",", " ", "F", "S", "C", " ", "c", "e", "r", "t", "i", "f", "i", "e", "d">>,
      <<"A", " ", "g", "r", "e", "e", "n", " ", "d", "e", "s", "k">>,
      <<"1", "0", "0", "%", " ", "s", "u", "s", "t", "a", "i", "n", "a", "b", "l", "e", ",", " ", "z", "e", "r", "o", " ", "i", "m", "p", "a", "c", "t", " ", "a", "n", "d", " ", "g", "r", "e", "e", "n">> }
Submissions ==
    { [company_name |-> c, product_title |-> <<"B", "a", "m", "b", "o", "o", " ", "D", "e", "s", "k">>,
       product_description |-> d, product_category |-> <<"t", "i", "m", "b", "e", "r">>,
       claimed_certifications |-> l] :
          c \in { <<"G", "r", "e", "e", "n", "W", "o", "o", "d", " ", "L", "t", "d">>, <<"g", "r", "e", "e", "n", "w", "o", "o", "d", " ", "l", "t", "d">> }, d \in Descriptions,
          l \in { <<>>, << <<"F", "S", "C">> >>, << <<"f", "s", "c">> >> } }

NextAnalyze ==
    /\ Len(SUBMISSION_HISTORY) < MaxAnalyses
    /\ \E submission \in Submissions : analyze_product(submission)

SpecAnalyze == Init /\ [][NextAnalyze]_vars

\* --------------------------------------------- the ledger over a longer history
\* submissions recorded in one behaviour of SpecHistory: a seller whose first
\* submission is not GREENWASHED needs four of them to have three GREENWASHED
MaxHistory == 4
\* scores of a VERIFIED and of a GREENWASHED submission
HistoryScores == {15, 50}

NextHistory ==
    \/ /\ Len(SUBMISSION_HISTORY) < MaxHistory
       /\ \E company \in Companies, product \in Products,
             risk_score \in HistoryScores, claims \in ClaimLists :
             record_submission(company, product, _classify_verdict(risk_score),
                               risk_score, claims)
    \/ get_early_alerts

SpecHistory == Init /\ [][NextHistory]_vars

\* ------------------------------------------------------------------ claims
\* the alert rule as the specification states it, on the two counters
AlertRule(greenwashed, total) ==
    IF greenwashed * 10 >= 6 * total \/ greenwashed >= 3 THEN "HIGH"
    ELSE IF greenwashed * 10 >= 3 * total \/ greenwashed >= 2 THEN "MEDIUM"
    ELSE "LOW"

ProfileKeys == {SELLER_PROFILES[i].key : i \in 1..Len(SELLER_PROFILES)}

\* the entries of the log for one company
EntriesOf(company) ==
    SelectSeq(SUBMISSION_HISTORY, LAMBDA e : e.company = company)

Occurrences(phrases, p) == Cardinality({i \in 1..Len(phrases) : phrases[i] = p})

AllPhrases ==
    UNION {{SUBMISSION_HISTORY[i].claim_phrases[j] :
                j \in 1..Len(SUBMISSION_HISTORY[i].claim_phrases)} :
           i \in 1..Len(SUBMISSION_HISTORY)}

\* C1: in every reachable state every seller profile's alert_level is the alert
\* rule applied to its current greenwashed_count and total_submissions, and its
\* avg_risk_score is round(total_risk_score / total_submissions); no call
\* leaves the counters updated and the derived fields at their previous values.
C1_DerivedFieldsFresh ==
    \A company \in ProfileKeys :
        LET p == ProfileOf(company) IN
        /\ p.alert_level = AlertRule(p.greenwashed_count, p.total_submissions)
        /\ "avg_risk_score" \in DOMAIN p
        /\ p.avg_risk_score = PyRound(p.total_risk_score, p.total_submissions)

\* C2: for every company and phrase, recurring_phrases[p] is the number of times
\* p appears in the claim_phrases of all submissions recorded for that company,
\* also when a later submission carries a phrase no earlier one carried.
C2_PhraseCountsCumulative ==
    \A company \in ProfileKeys : \A p \in AllPhrases :
        LET items == ProfileOf(company).recurring_phrases.items
            entries == EntriesOf(company)
            recorded == SeqSum([i \in 1..Len(entries) |->
                                    Occurrences(entries[i].claim_phrases, p)])
        IN  (IF DictHas(items, p) THEN DictGet(items, p) ELSE 0) = recorded

QueryOps == {"get_seller_risk_profile", "get_early_alerts",
             "get_all_submissions", "get_platform_stats"}

\* C9: a step of get_seller_risk_profile, get_early_alerts, get_all_submissions
\* or get_platform_stats leaves the submission history and every seller profile
\* as they were, and get_seller_risk_profile for a company with no submissions
\* returns the placeholder (total_submissions 0, alert_level LOW) and creates
\* no profile for it.
C9_QueriesLeaveLedgerUnchanged ==
    [][ret'.op \in QueryOps =>
        /\ UNCHANGED ledger
        /\ (ret'.op = "get_seller_risk_profile"
              /\ ~DictHas(SELLER_PROFILES, ret'.args[1])) =>
                /\ ret'.value.total_submissions = 0
                /\ ret'.value.alert_level = "LOW"
                /\ ret'.value.company = ret'.args[1]
                /\ ~DictHas(SELLER_PROFILES', ret'.args[1])]_vars

\* a lookup of a company without history, in a ledger that holds another seller
C9_Witness ==
    /\ ret.op = "get_seller_risk_profile"
    /\ SUBMISSION_HISTORY # <<>>
    /\ ~DictHas(SELLER_PROFILES, ret.args[1])
    /\ ret.value.total_submissions = 0

ActionText(level) ==
    IF level = "HIGH"
    THEN "Escalate for formal investigation - pattern of repeated greenwashing detected"
    ELSE "Issue warning notice and require certification submission within 14 days"

\* C10: get_early_alerts returns exactly one alert for each profile whose
\* alert_level is MEDIUM or HIGH and none for a LOW one; every HIGH alert comes
\* before every MEDIUM alert and, within a level, greenwashed_count descends;
\* recommended_action is the text of the alert's level; the recurring patterns
\* are at most 3 phrases of the profile, each with its count, which is > 1, in
\* descending order of count.
C10_EarlyAlerts ==
    ret.op = "get_early_alerts" =>
    LET alerts == ret.value
        alerted == {c \in ProfileKeys : ProfileOf(c).alert_level \in {"MEDIUM", "HIGH"}}
    IN  /\ Len(alerts) = Cardinality(alerted)
        /\ \A c \in alerted : \E i \in 1..Len(alerts) : alerts[i].company = c
        /\ \A i \in 1..Len(alerts) :
            LET a == alerts[i]
                pats == a.recurring_patterns
            IN  /\ a.company \in alerted
                /\ a.alert_level = ProfileOf(a.company).alert_level
                /\ a.greenwashed_count = ProfileOf(a.company).greenwashed_count
                /\ a.recommended_action = ActionText(a.alert_level)
                /\ Len(pats) <= 3
                /\ \A k \in 1..Len(pats) :
                    /\ pats[k].occurrences > 1
                    /\ DictHas(ProfileOf(a.company).recurring_phrases.items, pats[k].phrase)
                    /\ pats[k].occurrences =
                         DictGet(ProfileOf(a.company).recurring_phrases.items, pats[k].phrase)
                    /\ \A m \in 1..Len(pats) :
                         k < m => /\ pats[k].occurrences >= pats[m].occurrences
                                  /\ pats[k].phrase # pats[m].phrase
        /\ \A i, j \in 1..Len(alerts) :
            i < j =>
              /\ alerts[i].alert_level = "MEDIUM" => alerts[j].alert_level = "MEDIUM"
              /\ alerts[i].alert_level = alerts[j].alert_level
                   => alerts[i].greenwashed_count >= alerts[j].greenwashed_count

\* a HIGH and a MEDIUM seller, the HIGH one created second and reported first;
\* the MEDIUM one has four repeated phrases, of which three are reported, the
\* most repeated (fourth in insertion order) first
C10_Witness ==
    /\ ret.op = "get_early_alerts"
    /\ Len(ret.value) = 2
    /\ ret.value[1].alert_level = "HIGH"
    /\ ret.value[2].alert_level = "MEDIUM"
    /\ ret.value[1].company = SELLER_PROFILES[2].key
    /\ Len(ret.value[2].recurring_patterns) = 3
    /\ Len(SelectSeq(ProfileOf(ret.value[2].company).recurring_phrases.items, Repeated)) = 4
    /\ ret.value[2].recurring_patterns[1].occurrences
         > ret.value[2].recurring_patterns[2].occurrences

\* the counters of every profile: what the claim compares
Counters(profiles, objs) ==
    {[company |-> profiles[i].key,
      total_submissions |-> objs[profiles[i].value].total_submissions,
      total_risk_score |-> objs[profiles[i].value].total_risk_score,
      greenwashed_count |-> objs[profiles[i].value].greenwashed_count,
      review_count |-> objs[profiles[i].value].review_count,
      verified_count |-> objs[profiles[i].value].verified_count,
      recurring_phrases |->
          LET items == objs[profiles[i].value].recurring_phrases.items
          IN  {items[k] : k \in 1..Len(items)}] : i \in 1..Len(profiles)}

\* the profiles after the entries of the log were recorded one call after the
\* other, in the order given
RECURSIVE OneAfterTheOther(_, _, _)
OneAfterTheOther(profiles, objs, entries) ==
    IF entries = <<>> THEN [profiles |-> profiles, objects |-> objs]
    ELSE LET upd == _update_seller_profile(profiles, objs, Head(entries).company, Head(entries))
         IN  OneAfterTheOther(upd.profiles, upd.objects, Tail(entries))

SequentialCounters(order) ==
    LET done == OneAfterTheOther(<<>>, <<>>,
                    [k \in 1..Len(SUBMISSION_HISTORY) |-> SUBMISSION_HISTORY[order[k]]])
    IN  Counters(done.profiles, done.objects)

\* C3: when concurrent record_submission calls have all completed, every
\* profile's total_submissions, total_risk_score, verdict counters and
\* recurring-phrase counts are those of some sequential order of the same calls.
C3_NoLostUpdate ==
    (\A t \in Threads : At(t, "idle")) =>
        \E order \in Permutations(1..Len(SUBMISSION_HISTORY)) :
            Counters(SELLER_PROFILES, objects) = SequentialCounters(order)

\* the sum of the points of a score breakdown, in tenths
BreakdownTenths(breakdown) == SeqSum([i \in 1..Len(breakdown) |-> breakdown[i].points])

\* C4: for every list of claims, certificate results and red flags, every
\* has_proof_markers value and every AI risk level, the risk_score that
\* calculate_risk_score returns is an integer from 0 to 100.
C4_ScoreInRange ==
    ret.op = "calculate_risk_score" => ret.value.risk_score \in 0..100

\* contributions that add up to more than 100, and a returned score of 100
C4_Witness ==
    /\ ret.op = "calculate_risk_score"
    /\ BreakdownTenths(ret.value.score_breakdown) > 100 * 10
    /\ ret.value.risk_score = 100

\* C5: in every result of calculate_risk_score the verdict and the visibility
\* action belong to the bucket of the score: below 20 VERIFIED with BOOST and a
\* green badge, from 20 to 49 REVIEW_REQUIRED with HOLD and an amber badge,
\* from 50 GREENWASHED with DEMOTE and a red badge.
C5_VerdictMatchesVisibility ==
    ret.op = "calculate_risk_score" =>
    LET score == ret.value.risk_score
        verdict == ret.value.verdict
        impact == ret.value.visibility_impact
    IN  /\ score < 20 =>
              verdict = "VERIFIED" /\ impact.action = "BOOST" /\ impact.badge_color = "green"
        /\ (20 <= score /\ score < 50) =>
              verdict = "REVIEW_REQUIRED" /\ impact.action = "HOLD"
                  /\ impact.badge_color = "amber"
        /\ score >= 50 =>
              verdict = "GREENWASHED" /\ impact.action = "DEMOTE" /\ impact.badge_color = "red"

\* a score of exactly 20, the first of the middle bucket
C5_Witness ==
    /\ ret.op = "calculate_risk_score"
    /\ ret.value.risk_score = 20
    /\ ret.value.verdict = "REVIEW_REQUIRED"
    /\ ret.value.visibility_impact.action = "HOLD"

\* two strs are equal when compared case-insensitively
SameIgnoringCase(a, b) == lower(a) = lower(b)

\* the registry record a certificate claim is matched with: the first one of
\* the company and certificate type; 0 when there is none
MatchedIndex(company, cert_type) ==
    LET matching == {k \in 1..Len(REGISTRY) :
                        /\ SameIgnoringCase(REGISTRY[k].company, company)
                        /\ SameIgnoringCase(REGISTRY[k].cert_type, cert_type)}
    IN  IF matching = {} THEN 0
        ELSE CHOOSE k \in matching : \A m \in matching : k <= m

\* date a is before date b, compared as calendar dates
DateBefore(a, b) ==
    \/ a.year < b.year
    \/ a.year = b.year /\ a.month < b.month
    \/ a.year = b.year /\ a.month = b.month /\ a.day < b.day

\* the status the decision order of C6 gives
ExpectedStatus(company, cert_type, category) ==
    LET k == MatchedIndex(company, cert_type)
    IN  IF k = 0 THEN "NOT_FOUND"
        ELSE IF DateBefore(ParseDate(REGISTRY[k].expiry), today) THEN "EXPIRED"
        ELSE IF ~\E c \in 1..Len(REGISTRY[k].applicable_categories) :
                    SameIgnoringCase(REGISTRY[k].applicable_categories[c], category)
             THEN "SCOPE_MISMATCH"
        ELSE "VERIFIED"

\* C6: for every company, claimed certificate type and product category the
\* status of the verification result is NOT_FOUND if no registry record has
\* the company and the certificate type (case-insensitively), otherwise EXPIRED
\* if the matched record's expiry date is before today, otherwise
\* SCOPE_MISMATCH if the category is not (case-insensitively) among the
\* record's applicable categories, otherwise VERIFIED.
C6_StatusOrder ==
    ret.op = "verify_certificates" =>
    LET results == ret.value.verification_results
    IN  /\ Len(results) = Len(ret.args[2])
        /\ \A i \in 1..Len(results) :
              /\ results[i].cert = ret.args[2][i]
              /\ results[i].status = ExpectedStatus(ret.args[1], ret.args[2][i], ret.args[3])

\* a certificate that expires today, claimed in lower case by the company
\* written in capitals, for a category its record does not list: not EXPIRED
\* and not VERIFIED but SCOPE_MISMATCH; the second claimed certificate has
\* expired
C6_Witness ==
    /\ ret.op = "verify_certificates"
    /\ ret.args[1] = <<"G", "R", "E", "E", "N", "W", "O", "O", "D", " ", "L", "T", "D">>
    /\ ret.args[2] = << <<"f", "s", "c">>, <<"P", "E", "F", "C">> >>
    /\ ret.args[3] = <<"t", "e", "x", "t", "i", "l", "e", "s">>
    /\ today = ParseDate(REGISTRY[MatchedIndex(ret.args[1], ret.args[2][1])].expiry)
    /\ ret.value.verification_results[1].status = "SCOPE_MISMATCH"
    /\ ret.value.verification_results[2].status = "EXPIRED"

\* C7: a VERIFIED certificate result carries an expiry_warning exactly when the
\* number of days d from today to the expiry date satisfies 0 < d <= 90; for
\* d = 0 and for d > 90 there is none.
C7_ExpiryWarningWindow ==
    ret.op = "verify_certificates" =>
    \A i \in 1..Len(ret.value.verification_results) :
        LET result == ret.value.verification_results[i]
            record == REGISTRY[MatchedIndex(ret.args[1], ret.args[2][i])]
            d == ToOrdinal(ParseDate(record.expiry)) - ToOrdinal(today)
        IN  result.status = "VERIFIED" =>
                (result.expiry_warning # <<>> <=> (0 < d /\ d <= 90))

\* C8: after calls of extract_claims, verify_certificates and
\* calculate_risk_score the keyword taxonomy, the certificate registry, the
\* SDG target table and the guidance table are what they were at load time,
\* and the ledger is unchanged.
C8_TablesAsLoaded ==
    /\ KEYWORDS = KeywordsAtLoad
    /\ REGISTRY = RegistryAtLoad
    /\ SDG_TARGETS = SdgTargetsAtLoad
    /\ CERT_GUIDANCE = GuidanceAtLoad
    /\ SUBMISSION_HISTORY = <<>>
    /\ SELLER_PROFILES = <<>>
    /\ objects = <<>>

\* the piece of text t at offset p, as long as the phrase, is the phrase when
\* both are compared case-insensitively
PhraseAt(t, p, phrase) ==
    /\ 0 <= p
    /\ p + Len(phrase) <= Len(t)
    /\ SameIgnoringCase(SubSeq(t, p + 1, p + Len(phrase)), phrase)

\* C11: for every text T and every claim extract_claims(T) returns, the piece
\* of T at the claim's position, as long as the phrase, equals the phrase
\* case-insensitively, no smaller offset of T has that property, and no two
\* claims of the call have the same phrase.
C11_PositionsLocatePhrases ==
    ret.op = "extract_claims" =>
    LET T == ret.args[1]
        claims == ret.value.claims
    IN  /\ \A i \in 1..Len(claims) :
              /\ PhraseAt(T, claims[i].position, claims[i].phrase)
              /\ \A q \in 0..(claims[i].position - 1) : ~PhraseAt(T, q, claims[i].phrase)
        /\ \A i, j \in 1..Len(claims) : i # j => claims[i].phrase # claims[j].phrase

\* the number of log entries of a company with a given verdict
Recorded(company, verdict) ==
    Len(SelectSeq(EntriesOf(company), LAMBDA e : e.verdict = verdict))

NewestFirst(log) == [i \in 1..Len(log) |-> log[Len(log) + 1 - i]]

\* C13: the submission log is append-only. A record_submission call (the one
\* step that moves the clock) adds exactly one entry, of the company it was
\* called with, after the entries already there; every other step leaves the
\* log as it is; get_all_submissions returns all entries, the most recent
\* first, so that the listing before a record_submission call is the listing
\* after it without its first entry.
C13_LogAppendOnly ==
    [][/\ clock' # clock =>
            /\ ret'.op = "record_submission"
            /\ Len(SUBMISSION_HISTORY') = Len(SUBMISSION_HISTORY) + 1
            /\ SubSeq(SUBMISSION_HISTORY', 1, Len(SUBMISSION_HISTORY)) = SUBMISSION_HISTORY
            /\ SUBMISSION_HISTORY'[Len(SUBMISSION_HISTORY')].company = ret'.args[1]
            /\ Tail(NewestFirst(SUBMISSION_HISTORY')) = NewestFirst(SUBMISSION_HISTORY)
       /\ clock' = clock => SUBMISSION_HISTORY' = SUBMISSION_HISTORY
       /\ ret'.op = "record_submission" => clock' # clock
       /\ ret'.op = "get_all_submissions" =>
            ret'.value = NewestFirst(SUBMISSION_HISTORY')]_vars

\* a listing of three entries, the third recorded first in it, taken after a
\* call that ended in KeyError had added its entry
C13_Witness ==
    /\ ret.op = "get_all_submissions"
    /\ Len(ret.value) = 3
    /\ ret.value[1].timestamp = 3
    /\ ret.value[3].timestamp = 1
    /\ \E company \in ProfileKeys :
          /\ ProfileOf(company).total_submissions = 3
          /\ ProfileOf(company).recurring_phrases.kind = "dict"
          /\ SeqSum([i \in 1..Len(ProfileOf(company).recurring_phrases.items) |->
                        ProfileOf(company).recurring_phrases.items[i].value])
               < SeqSum([i \in 1..3 |-> SUBMISSION_HISTORY[i].claim_count])

\* the weight of a claim type, as C14 lists them
TypeWeight(type) ==
    IF type = "absolute" THEN 40
    ELSE IF type = "misleading" THEN 30
    ELSE IF type = "vague" THEN 15
    ELSE 10

\* the severity multiplier of a phrase, in quarters: that of the first target
\* of the table as loaded with a keyword that contains the phrase or is
\* contained in it, case-insensitively; 1.0 when there is none
SeverityQuarters(phrase) ==
    LET matching == {k \in 1..Len(SdgTargetsAtLoad) :
            /\ "keywords" \in DOMAIN SdgTargetsAtLoad[k].value
            /\ \E w \in 1..Len(SdgTargetsAtLoad[k].value.keywords) :
                  LET keyword == lower(SdgTargetsAtLoad[k].value.keywords[w])
                  IN  In(keyword, lower(phrase)) \/ In(lower(phrase), keyword)}
    IN  IF matching = {} THEN 4
        ELSE SdgTargetsAtLoad[CHOOSE k \in matching : \A m \in matching : k <= m].value.severity

CertPenalty(status) ==
    IF status = "NOT_FOUND" THEN 25
    ELSE IF status = "EXPIRED" THEN 20
    ELSE IF status = "SCOPE_MISMATCH" THEN 15
    ELSE 0

AiPoints(ai_generated_risk) ==
    IF "risk" \notin DOMAIN ai_generated_risk THEN 0
    ELSE IF ai_generated_risk.risk = "high" THEN 15
    ELSE IF ai_generated_risk.risk = "medium" THEN 8
    ELSE 0

\* the contributions of C14 to a call's score, each in quarters of a point:
\* one per claim, one per certificate result, then proof, red flags and AI risk
Contributions(args) ==
    [i \in 1..Len(args[1]) |-> TypeWeight(args[1][i].type) * SeverityQuarters(args[1][i].phrase)]
    \o [i \in 1..Len(args[2]) |-> 4 * CertPenalty(args[2][i].status)]
    \o << IF ~args[4] /\ Len(args[1]) > 0 THEN 4 * 10 ELSE 0,
          IF Len(args[3]) > 0 THEN 4 * Min(5 * Len(args[3]), 20) ELSE 0,
          4 * AiPoints(args[5]) >>

\* C14: the risk score is the sum of the contributions (type weight times SDG
\* severity per claim; 25, 20, 15 or 0 per certificate result; 10 for missing
\* proof when there is a claim; min(5 x red flags, 20); 15, 8 or 0 for AI
\* risk), rounded to a nearest integer and clamped to 100; an empty
\* certificate-result list adds nothing, and the score_breakdown has one
\* entry, with positive points, for every non-zero contribution.
C14_ScoreIsSumOfContributions ==
    ret.op = "calculate_risk_score" =>
    LET parts == Contributions(ret.args)
        total == SeqSum(parts)
        score == ret.value.risk_score
        breakdown == ret.value.score_breakdown
    IN  /\ \/ score = 100 /\ 2 * total >= 2 * 4 * 100 - 4
           \/ score < 100 /\ 2 * (4 * score - total) <= 4 /\ 2 * (total - 4 * score) <= 4
        /\ Len(breakdown) = Len(SelectSeq(parts, LAMBDA c : c # 0))
        /\ \A i \in 1..Len(breakdown) : breakdown[i].points > 0
        /\ 4 * BreakdownTenths(breakdown) - 10 * total \in -2 * Len(ret.args[1])..2 * Len(ret.args[1])

\* all five kinds of contribution at once, the red flags at their cap, a sum
\* that is no whole number and stays below the clamp
C14_Witness ==
    /\ ret.op = "calculate_risk_score"
    /\ Len(ret.args[1]) > 0
    /\ \E i \in 1..Len(ret.args[2]) : ret.args[2][i].status = "NOT_FOUND"
    /\ ~ret.args[4]
    /\ Len(ret.args[3]) > 4
    /\ AiPoints(ret.args[5]) = 15
    /\ SeqSum(Contributions(ret.args)) % 4 # 0
    /\ ret.value.risk_score < 100
    /\ Len(ret.value.score_breakdown) = Len(ret.args[1]) + 4

\* the companies of the log
LoggedCompanies == {SUBMISSION_HISTORY[i].company : i \in 1..Len(SUBMISSION_HISTORY)}

C16_VerifiedNotMissing ==
    ret.op = "verify_certificates" =>
    \A i \in 1..Len(ret.value.verification_results) :
        ret.value.verification_results[i].status = "VERIFIED" =>
            \A m \in 1..Len(ret.value.missing_recommended) :
                ~SameIgnoringCase(ret.value.missing_recommended[m].cert,
                                  ret.value.verification_results[i].cert)

\* the seller of the response the step returns
Respondent == ret'.args[1].company_name

\* C17: the seller_history block of a response describes the seller as it was
\* before the current submission was recorded: for the n-th submission of a
\* company prior_submissions is n - 1, and prior_greenwash_count and
\* alert_level are the values the profile had after the first n - 1
\* submissions (none and LOW for a seller without a profile).
C17_HistoryIsPrior ==
    [][(ret'.op = "analyze_product" /\ ~ret'.raised /\ clock' # clock) =>
           /\ ret'.value.seller_history.prior_submissions = Len(EntriesOf(Respondent))
           /\ ret'.value.seller_history.prior_greenwash_count =
                  (IF DictHas(SELLER_PROFILES, Respondent)
                   THEN ProfileOf(Respondent).greenwashed_count ELSE 0)
           /\ ret'.value.seller_history.alert_level =
                  (IF DictHas(SELLER_PROFILES, Respondent)
                   THEN ProfileOf(Respondent).alert_level ELSE "LOW")]_vars

\* a first submission is answered from the placeholder of get_seller_risk_profile
FirstSubmissionHistory ==
    [][(ret'.op = "analyze_product" /\ ~ret'.raised /\ clock' # clock
           /\ ~DictHas(SELLER_PROFILES, Respondent)) =>
           ret'.value.seller_history =
               [alert_level |-> "LOW", prior_submissions |-> 0,
                prior_greenwash_count |-> 0]]_vars

\* the companies get_early_alerts lists in the current state
Alerted ==
    {EarlyAlerts(SELLER_PROFILES, objects)[i].company :
         i \in 1..Len(EarlyAlerts(SELLER_PROFILES, objects))}

\* C18: once a seller has accumulated 3 GREENWASHED submissions, in every
\* state that follows, whatever is submitted for any company, the profile's
\* alert_level is HIGH and the seller is included in get_early_alerts.
C18_AlertStaysHigh ==
    \A company \in ProfileKeys :
        ProfileOf(company).greenwashed_count >= 3 =>
            /\ ProfileOf(company).alert_level = "HIGH"
            /\ company \in Alerted
====
